---- MODULE Spec2Model ----
(***************************************************************************)
(* A model of the interactive canvas engine of SAMwise: the drawing canvas *)
(* (view state, mask, SAM markers, tool), the main window that wires it to *)
(* the SAM model service and the image manager, and the event bus.         *)
(*                                                                         *)
(* Each object of the program is one variable holding a record of its      *)
(* fields.  Every method is an operator from the program state (a record   *)
(* of the objects) to the program state, named after the method it         *)
(* models; a handler that calls another method applies that operator.  An  *)
(* action applies one complete event handler.  The variable "trace"        *)
(* records what the handler that ran last did (its inputs, the calls it    *)
(* made on the model service, the events it published, and the values it   *)
(* read before it changed them), so that properties of one handler can be  *)
(* stated as state predicates.                                             *)
(*                                                                         *)
(* scale_factor and min_scale_factor are Python floats; they are modelled  *)
(* as exact rationals <<numerator, denominator>>.  QPoint and QSize are    *)
(* pairs <<x, y>> and <<w, h>>.                                            *)
(***************************************************************************)
EXTENDS Integers, Sequences, FiniteSets, TLC

VARIABLES canvas, window, model_service, image_manager, drawing_tools,
          folder_manager, disk, buttons, trace, job

vars == <<canvas, window, model_service, image_manager, drawing_tools,
          folder_manager, disk, buttons, trace, job>>

(***************************************************************************)
(* Bounds of the model.                                                    *)
(***************************************************************************)
\* the largest number of net wheel zoom-in steps above the auto-fit scale
MaxZoomIn == 3
\* the largest number of wheel and pan steps after one auto-fit
MaxViewSteps == 3
\* the longest marker list a click may extend
MaxMarkers == 2
\* the largest number of stroke segments kept on one mask
MaxStrokes == 1
\* the largest number of stroke segments of the drags of SpecStroke
MaxDragSegments == 2

(***************************************************************************)
(* Program constants.                                                      *)
(***************************************************************************)
\* remove_nearest_marker(position, threshold=20)
DefaultThreshold == 20
\* auto_fit_image: self.width() - 20, at least 100
FitPadding == 20
MinFitCanvas == 100

(***************************************************************************)
(* The files of the selected folder, in directory order, with the size of  *)
(* the raster each holds, its sample depth and its channels; "c" cannot be  *)
(* decoded, neither by QImage.load nor by cv2.imread.                      *)
(***************************************************************************)
Files == <<"a", "b", "c", "d">>
FileSet == {Files[i] : i \in 1..Len(Files)}
FileInfo ==
  [a |-> [w |-> 800, h |-> 600, readable |-> TRUE, bits |-> 16, channels |-> 1],
   b |-> [w |-> 420, h |-> 400, readable |-> TRUE, bits |-> 8, channels |-> 3],
   c |-> [w |-> 0,   h |-> 0,   readable |-> FALSE, bits |-> 0, channels |-> 0],
   d |-> [w |-> 640, h |-> 480, readable |-> TRUE, bits |-> 16, channels |-> 3]]

\* create_placeholder_image(500, 500, message_type)
PlaceholderSize == <<500, 500>>

\* the size of a QImage value: "null" is QImage()
ImageSize(img) ==
  IF img = "null" THEN <<0, 0>>
  ELSE IF img = "placeholder" THEN PlaceholderSize
  ELSE <<FileInfo[img].w, FileInfo[img].h>>

(***************************************************************************)
(* Arithmetic.                                                             *)
(***************************************************************************)
RECURSIVE GCD(_, _)
GCD(a, b) == IF b = 0 THEN a ELSE GCD(b, a % b)

\* the rational n/d (n >= 0, d > 0) in lowest terms
Rat(n, d) == LET g == GCD(n, d) IN <<n \div g, d \div g>>
RatMul(a, b) == Rat(a[1] * b[1], a[2] * b[2])
RatDiv(a, b) == Rat(a[1] * b[2], a[2] * b[1])
RatLess(a, b) == a[1] * b[2] < b[1] * a[2]
RatMin(a, b) == IF RatLess(b, a) THEN b ELSE a
Max(a, b) == IF a >= b THEN a ELSE b
Min(a, b) == IF a <= b THEN a ELSE b
Abs(a) == IF a >= 0 THEN a ELSE -a

\* Python int(n/d) for d > 0: truncation towards zero
TruncDiv(n, d) == IF n >= 0 THEN n \div d ELSE -((-n) \div d)
\* qRound(n/d) for n >= 0, d > 0
RoundDiv(n, d) == (2 * n + d) \div (2 * d)
\* the least integer >= n/d for n >= 0, d > 0
CeilDiv(n, d) == (n + d - 1) \div d

\* the wheel zoom step 1.1
ZoomStep == <<11, 10>>
\* coverage_target = 0.8
CoverageTarget == <<4, 5>>

(***************************************************************************)
(* Mask values.  A mask is kept symbolically: what produced its pixels     *)
(* (kind), its size, the image and points an oracle result was computed    *)
(* from, the cutoff of a threshold result (-1 for the other kinds), and    *)
(* the stroke segments drawn over it since.                                *)
(***************************************************************************)
MaskOf(kind, size, img, pts) ==
  [kind |-> kind, w |-> size[1], h |-> size[2], img |-> img, pts |-> pts,
   threshold |-> -1, strokes |-> <<>>]

\* QImage()
NullMask == MaskOf("null", <<0, 0>>, "null", <<>>)
\* QImage(size, Format_ARGB32) filled with Qt.transparent
TransparentMask(size) == MaskOf("transparent", size, "null", <<>>)
\* the raster stored in the mask file of image img
FileMask(img) == MaskOf("file", ImageSize(img), img, <<>>)
\* the QImage threshold_image returns for the file img and the cutoff
ThresholdMask(img, threshold_value) ==
  [MaskOf("threshold", ImageSize(img), img, <<>>)
     EXCEPT !.threshold = threshold_value]

(***************************************************************************)
(* The program state as one record, and the trace of the running handler.  *)
(***************************************************************************)
State ==
  [canvas |-> canvas, window |-> window, model_service |-> model_service,
   image_manager |-> image_manager, drawing_tools |-> drawing_tools,
   folder_manager |-> folder_manager, disk |-> disk, buttons |-> buttons,
   trace |-> trace]

NoPoint == <<0, 0>>

\* the trace of a handler that has just been entered: the handler (op) and
\* its pointer position, the predictor set-ups and oracle calls it made
\* (each with whether the progress bar was visible and the tool buttons
\* were enabled during the call), the
\* events it published, the mask and save state at its first failed request
\* (failed), the point the auto region detector gave it, the marker list it
\* popped from and the index popped, the count of markers it cleared, for
\* each set_mask the mask it replaced, the mask it was given, the image
\* shown and the marker list at that moment, the image path it loaded, whether threshold_image raised, the
\* count of mask_changed signals the canvas emitted, and for
\* a wheel step the image point under the cursor before and whether the
\* final adjust_pan_offset moved the pan offset
NewTrace(s, op, pos) ==
  [op |-> op, pos |-> pos,
   setups |-> <<>>, calls |-> <<>>, events |-> <<>>,
   failed |-> <<>>, detected |-> <<>>,
   removed |-> 0, removed_from |-> <<>>, cleared |-> 0, replaced |-> <<>>,
   loaded |-> "none", raised |-> FALSE, signals |-> 0,
   zoomed |-> FALSE, before |-> NoPoint, clamped |-> FALSE]

Begin(s, op, pos) == [s EXCEPT !.trace = NewTrace(s, op, pos)]

\* the handler has returned with the state t
Commit(t) ==
  \E r \in {t} :
    /\ canvas' = r.canvas
    /\ window' = r.window
    /\ model_service' = r.model_service
    /\ image_manager' = r.image_manager
    /\ drawing_tools' = r.drawing_tools
    /\ folder_manager' = r.folder_manager
    /\ disk' = r.disk
    /\ buttons' = r.buttons
    /\ trace' = r.trace
    /\ job' = job

(***************************************************************************)
(* DrawingCanvas: the view.                                                *)
(***************************************************************************)
\* a convert_to_image_coords that leaves the pan offset out (C22 is tried on
\* it)
convert_to_image_coords_NoPan(c, pos) ==
  <<TruncDiv(pos[1] * c.scale_factor[2], c.scale_factor[1]),
    TruncDiv(pos[2] * c.scale_factor[2], c.scale_factor[1])>>

\* convert_to_image_coords: int((pos - panOffset) / scale_factor)
convert_to_image_coords(c, pos) ==
  <<TruncDiv((pos[1] - c.panOffset[1]) * c.scale_factor[2], c.scale_factor[1]),
    TruncDiv((pos[2] - c.panOffset[2]) * c.scale_factor[2], c.scale_factor[1])>>

\* int(p * scale_factor + offset), as in wheelEvent and draw_sam_markers
to_widget_coord(c, p, offset) ==
  TruncDiv(p * c.scale_factor[1] + offset * c.scale_factor[2], c.scale_factor[2])

\* QSize * float: each side rounded to the nearest integer
ScaleSize(size, f) ==
  <<RoundDiv(size[1] * f[1], f[2]), RoundDiv(size[2] * f[1], f[2])>>

\* QImage.scaled(size, Qt.KeepAspectRatio, ...): the size of the result; a
\* null image or an empty target gives the null image
ScaledSize(img, size) ==
  IF img[1] <= 0 \/ img[2] <= 0 \/ size[1] <= 0 \/ size[2] <= 0 THEN <<0, 0>>
  ELSE LET rw == (size[2] * img[1]) \div img[2]
           fit == IF rw <= size[1] THEN <<rw, size[2]>>
                  ELSE <<size[1], (size[1] * img[2]) \div img[1]>>
       IN <<Max(fit[1], 1), Max(fit[2], 1)>>

\* the bounds adjust_pan_offset clamps one coordinate of panOffset to
ClampPan(p, widget, scaled) ==
  LET max_offset == Max(0, (widget - scaled) \div 2)
  IN Max(Min(p, max_offset), -(scaled - widget + max_offset))

adjust_pan_offset(c) ==
  IF c.scaled_image # <<0, 0>>
  THEN [c EXCEPT !.panOffset =
          <<ClampPan(c.panOffset[1], c.width, c.scaled_image[1]),
            ClampPan(c.panOffset[2], c.height, c.scaled_image[2])>>]
  ELSE c

update_scaled_image(c) ==
  adjust_pan_offset(
    IF c.image # "null"
    THEN [c EXCEPT !.scaled_image =
            ScaledSize(ImageSize(c.image),
                       ScaleSize(ImageSize(c.image), c.scale_factor))]
    ELSE c)

\* an auto_fit_image that keeps a scale the user has zoomed in to (C30 is
\* tried on it)
auto_fit_image_KeepZoom(c) ==
  IF c.image = "null" \/ c.width <= 0 \/ c.height <= 0 THEN c
  ELSE LET canvas_width == Max(c.width - FitPadding, MinFitCanvas)
           canvas_height == Max(c.height - FitPadding, MinFitCanvas)
           img == ImageSize(c.image)
           fit_scale == RatMin(Rat(canvas_width, img[1]),
                               Rat(canvas_height, img[2]))
           min_scale_x == Rat(canvas_width * CoverageTarget[1],
                              img[1] * CoverageTarget[2])
           min_scale_y == Rat(canvas_height * CoverageTarget[1],
                              img[2] * CoverageTarget[2])
       IN [c EXCEPT !.scale_factor = IF c.zoomLevel > 0 THEN @ ELSE fit_scale,
                    !.min_scale_factor = RatMin(min_scale_x, min_scale_y),
                    !.zoomLevel = 0, !.viewSteps = 0]

auto_fit_image(c) ==
  IF c.image = "null" \/ c.width <= 0 \/ c.height <= 0 THEN c
  ELSE LET canvas_width == Max(c.width - FitPadding, MinFitCanvas)
           canvas_height == Max(c.height - FitPadding, MinFitCanvas)
           img == ImageSize(c.image)
           fit_scale == RatMin(Rat(canvas_width, img[1]),
                               Rat(canvas_height, img[2]))
           min_scale_x == Rat(canvas_width * CoverageTarget[1],
                              img[1] * CoverageTarget[2])
           min_scale_y == Rat(canvas_height * CoverageTarget[1],
                              img[2] * CoverageTarget[2])
       IN [c EXCEPT !.scale_factor = fit_scale,
                    !.min_scale_factor = RatMin(min_scale_x, min_scale_y),
                    !.zoomLevel = 0, !.viewSteps = 0]

center_image(c) ==
  IF c.scaled_image # <<0, 0>>
  THEN [c EXCEPT !.panOffset = <<(c.width - c.scaled_image[1]) \div 2,
                                 (c.height - c.scaled_image[2]) \div 2>>]
  ELSE c

\* a wheelEvent without the clamp to min_scale_factor (C1 is tried on it)
ClampScale_Unclamped(scale, min_scale) == scale

\* wheelEvent: "Prevent zooming out beyond the minimum scale"
ClampScale(scale, min_scale) ==
  IF RatLess(scale, min_scale) THEN min_scale ELSE scale

\* a wheelEvent that leaves the pan offset as it was (C2 is tried on it)
AnchorPan_Keep(c, mouse_pos, image_pos_before) == c.panOffset

\* wheelEvent: "Adjust pan offset to keep the mouse cursor over the same
\* image point": the pan offset before the final adjust_pan_offset
AnchorPan(c, mouse_pos, image_pos_before) ==
  LET new_widget_pos ==
        <<to_widget_coord(c, image_pos_before[1], c.panOffset[1]),
          to_widget_coord(c, image_pos_before[2], c.panOffset[2])>>
  IN <<c.panOffset[1] + mouse_pos[1] - new_widget_pos[1],
       c.panOffset[2] + mouse_pos[2] - new_widget_pos[2]>>

\* zoomLevel counts the zoom steps above the scale set by auto_fit_image or
\* by the clamp to min_scale_factor, and viewSteps the wheel and pan steps
\* since auto_fit_image ran (neither is a field of the program: they bound
\* the view changes the model explores)
NextZoomLevel(c, zoom_in, new_scale) ==
  IF zoom_in THEN c.zoomLevel + 1
  ELSE IF new_scale = c.min_scale_factor THEN 0
  ELSE c.zoomLevel - 1

\* wheelEvent with angleDelta().y() > 0 (zoom_in) or not
wheelEvent(s, mouse_pos, zoom_in) ==
  IF s.canvas.image = "null" THEN s
  ELSE LET c == s.canvas
           image_pos_before == convert_to_image_coords(c, mouse_pos)
           stepped == IF zoom_in THEN RatMul(c.scale_factor, ZoomStep)
                      ELSE RatDiv(c.scale_factor, ZoomStep)
           new_scale == ClampScale(stepped, c.min_scale_factor)
           c1 == update_scaled_image(
                   [c EXCEPT !.scale_factor = new_scale,
                             !.zoomLevel = NextZoomLevel(c, zoom_in, new_scale),
                             !.viewSteps = @ + 1])
           c2 == [c1 EXCEPT !.panOffset = AnchorPan(c1, mouse_pos, image_pos_before)]
           c3 == adjust_pan_offset(c2)
       IN [s EXCEPT !.canvas = c3,
                    !.trace.zoomed = TRUE,
                    !.trace.before = image_pos_before,
                    !.trace.clamped = (c3.panOffset # c2.panOffset)]

(***************************************************************************)
(* The event bus: publish logs the event and then runs the subscribers of  *)
(* its type in subscription order (each publish_X below).                  *)
(***************************************************************************)
\* the mask and the save state when a request to the oracle fails
Snapshot(s) == [mask |-> s.canvas.mask, saved |-> s.window.mask_is_saved]

LogEvent(s, event_type) ==
  [s EXCEPT !.trace.events = Append(@, event_type)]

(***************************************************************************)
(* MainWindow: GUI state and mask save state.                              *)
(***************************************************************************)
\* an on_mask_modified that leaves the saved flag (C33 is tried on it)
on_mask_modified_KeepSaved(s) ==
  [s EXCEPT !.window.current_mask_modified = TRUE]

on_mask_modified(s) ==
  [s EXCEPT !.window.current_mask_modified = TRUE,
            !.window.mask_is_saved = FALSE]

update_gui_image(s) ==
  [s EXCEPT !.window.image_controls_enabled = TRUE,
            !.window.navigation_enabled = TRUE,
            !.drawing_tools.enabled = TRUE]

on_mask_created(s) == update_gui_image(s)

\* MASK_CREATED: subscribed by MainWindow.on_mask_created only
publish_MASK_CREATED(s) == on_mask_created(LogEvent(s, "MASK_CREATED"))

(***************************************************************************)
(* DrawingCanvas: mask and markers.                                        *)
(***************************************************************************)
\* the signal mask_changed is connected to MainWindow.on_mask_modified
emit_mask_changed(s) ==
  on_mask_modified([s EXCEPT !.trace.signals = @ + 1])

\* a clearMask that always stores the null QImage (C19 is tried on it)
clearMask_Null(s) ==
  emit_mask_changed(
    [s EXCEPT !.canvas = update_scaled_image(
                [s.canvas EXCEPT !.mask = NullMask, !.sam_markers = <<>>]),
              !.trace.cleared = @ + Len(s.canvas.sam_markers)])

clearMask(s) ==
  LET c == s.canvas
      cleared == IF c.image # "null" THEN TransparentMask(ImageSize(c.image))
                 ELSE NullMask
  IN emit_mask_changed(
       [s EXCEPT !.canvas = update_scaled_image(
                   [c EXCEPT !.mask = cleared, !.sam_markers = <<>>]),
                 !.trace.cleared = @ + Len(c.sam_markers)])

set_mask(s, mask) ==
  publish_MASK_CREATED(
    emit_mask_changed(
      [s EXCEPT !.canvas = update_scaled_image([s.canvas EXCEPT !.mask = mask]),
                !.trace.replaced =
                   Append(@, [before |-> s.canvas.mask, given |-> mask,
                              image |-> s.canvas.image,
                              path |-> s.image_manager.current_image_path,
                              markers |-> s.canvas.sam_markers])]))

loadImage(s, filePath) ==
  LET c == [s.canvas EXCEPT !.image = IF FileInfo[filePath].readable
                                      THEN filePath ELSE "null"]
  IN [s EXCEPT !.canvas =
        IF c.image # "null"
        THEN center_image(update_scaled_image(auto_fit_image(c)))
        ELSE c]

\* loadMask: the mask file of the image is read into self.mask
loadMask(s, img) ==
  [s EXCEPT !.canvas = update_scaled_image([s.canvas EXCEPT !.mask = FileMask(img)])]

\* threshold_image returns a mask exactly when cv2.imread reads the file, its
\* dtype is uint16, and the thresholded array has two dimensions ("height,
\* width = binary_mask.shape"); otherwise it raises ValueError
threshold_image_ok(filepath) ==
  /\ FileInfo[filepath].readable
  /\ FileInfo[filepath].bits = 16
  /\ FileInfo[filepath].channels = 1

\* an applyThreshold whose threshold_image never raises (C14 is tried on it)
applyThreshold_Unchecked(s, threshold_value, filepath) ==
  emit_mask_changed(
    [s EXCEPT !.canvas = update_scaled_image(
                [s.canvas EXCEPT !.mask = ThresholdMask(filepath, threshold_value)])])

\* an applyThreshold that draws the strokes of the mask before over the
\* result (C29 is tried on it)
applyThreshold_KeepStrokes(s, threshold_value, filepath) ==
  IF threshold_image_ok(filepath)
  THEN emit_mask_changed(
         [s EXCEPT !.canvas = update_scaled_image(
                     [s.canvas EXCEPT !.mask =
                        [ThresholdMask(filepath, threshold_value)
                           EXCEPT !.strokes = s.canvas.mask.strokes]])])
  ELSE [s EXCEPT !.trace.raised = TRUE]

\* applyThreshold: when threshold_image raises, the assignment to self.mask
\* and the statements after it do not run
applyThreshold(s, threshold_value, filepath) ==
  IF threshold_image_ok(filepath)
  THEN emit_mask_changed(
         [s EXCEPT !.canvas = update_scaled_image(
                     [s.canvas EXCEPT !.mask = ThresholdMask(filepath, threshold_value)])])
  ELSE [s EXCEPT !.trace.raised = TRUE]

displayPlaceholder(s) ==
  LET s1 == clearMask([s EXCEPT !.canvas.image = "placeholder"])
  IN [s1 EXCEPT !.canvas = update_scaled_image(s1.canvas)]

resizeEvent(s, size) ==
  LET c == [s.canvas EXCEPT !.width = size[1], !.height = size[2]]
  IN [s EXCEPT !.canvas =
        IF c.image # "null"
        THEN center_image(update_scaled_image(auto_fit_image(c)))
        ELSE c]

\* an on_tool_changed that keeps the markers (C9 is tried on it)
canvas_on_tool_changed_Keep(s, tool_value) ==
  [s EXCEPT !.canvas.current_tool =
              IF tool_value \in {"brush", "marker", "eraser"} THEN tool_value ELSE @]

\* on_tool_changed: the event carries the tool's string value
canvas_on_tool_changed(s, tool_value) ==
  LET c == [s.canvas EXCEPT !.current_tool =
              IF tool_value \in {"brush", "marker", "eraser"}
              THEN tool_value ELSE @]
  IN IF c.current_tool # "marker"
     THEN [s EXCEPT !.canvas = [c EXCEPT !.sam_markers = <<>>],
                    !.trace.cleared = @ + Len(c.sam_markers)]
     ELSE [s EXCEPT !.canvas = c]

\* TOOL_CHANGED: subscribed by DrawingCanvas.on_tool_changed only
publish_TOOL_CHANGED(s, tool_value) ==
  canvas_on_tool_changed(LogEvent(s, "TOOL_CHANGED"), tool_value)

canvas_on_mask_cleared(s) ==
  LET s1 == clearMask(s)
  IN [s1 EXCEPT !.canvas.sam_markers = <<>>,
                !.trace.cleared = @ + Len(s1.canvas.sam_markers)]

window_on_mask_cleared(s) == update_gui_image(on_mask_modified(s))

\* MASK_CLEARED: DrawingCanvas subscribed first, MainWindow second
publish_MASK_CLEARED(s) ==
  window_on_mask_cleared(canvas_on_mask_cleared(LogEvent(s, "MASK_CLEARED")))

(***************************************************************************)
(* ModelService: the segmentation oracle.  env is what the environment     *)
(* answers during one handler: setup is the outcome of setting up the      *)
(* predictor ("ok", "load_fail": the checkpoint cannot be loaded,          *)
(* "read_fail": cv2.imread fails, "embed_fail": set_image raises),         *)
(* predict_ok whether predictor.predict returns, and centroid the point    *)
(* the auto region detector finds (NoCentroid if it finds no region).      *)
(***************************************************************************)
NoCentroid == <<>>

set_sam_predictor_ok(s, env) ==
  /\ (s.model_service.sam_model \/ env.setup # "load_fail")
  /\ env.setup \notin {"read_fail", "embed_fail"}

set_sam_predictor(s, image_path, env) ==
  LET m == s.model_service
      logged == [s EXCEPT !.trace.setups =
                   Append(@, [img |-> image_path, ok |-> set_sam_predictor_ok(s, env),
                              progress |-> s.window.progress_bar,
                              tools_enabled |-> s.drawing_tools.enabled]),
                 !.trace.failed =
                   IF set_sam_predictor_ok(s, env) THEN @ ELSE Append(@, Snapshot(s))]
  IN IF ~m.sam_model /\ env.setup = "load_fail" THEN logged
     ELSE IF env.setup = "read_fail"
       THEN [logged EXCEPT !.model_service.sam_model = TRUE]
     ELSE IF env.setup = "embed_fail"
       THEN [logged EXCEPT !.model_service.sam_model = TRUE,
                           !.model_service.predictor = "unset"]
     ELSE [logged EXCEPT !.model_service.sam_model = TRUE,
                         !.model_service.predictor = image_path,
                         !.model_service.current_image = image_path]

\* add_predictor_point returns a mask exactly when a predictor with an image
\* is set and predict does not raise
add_predictor_point_ok(s, env) ==
  s.model_service.predictor \in FileSet /\ env.predict_ok

\* the best mask the predictor returns for the points, converted by
\* convert_sam_mask_to_qimage
OracleMask(s, points) ==
  MaskOf("oracle", ImageSize(s.model_service.predictor),
         s.model_service.predictor, points)

add_predictor_point(s, points, env) ==
  [s EXCEPT !.trace.calls =
              Append(@, [pts |-> points, img |-> s.model_service.predictor,
                         ok |-> add_predictor_point_ok(s, env),
                         progress |-> s.window.progress_bar,
                         tools_enabled |-> s.drawing_tools.enabled]),
            !.trace.failed =
              IF add_predictor_point_ok(s, env) THEN @ ELSE Append(@, Snapshot(s))]

(***************************************************************************)
(* MainWindow: SAM.                                                        *)
(***************************************************************************)
load_sam_for_current_image_ok(s, env) ==
  s.image_manager.current_image_path # "" /\ set_sam_predictor_ok(s, env)

\* ImageControls.show_progress_bar
show_progress_bar(s, visible) == [s EXCEPT !.window.progress_bar = visible]

\* the progress bar is shown before the try and hidden in its finally
load_sam_for_current_image(s, env) ==
  LET current_path == s.image_manager.current_image_path
  IN IF current_path = "" THEN s
     ELSE LET s1 == set_sam_predictor(show_progress_bar(s, TRUE), current_path, env)
          IN show_progress_bar(
               IF set_sam_predictor_ok(s, env)
               THEN [s1 EXCEPT !.window.sam_loaded = TRUE,
                               !.window.current_sam_image = current_path]
               ELSE s1,
               FALSE)

\* an apply_sam_with_markers that clears the mask when the oracle returns
\* no mask (C10 is tried on it)
apply_sam_with_markers_ClearOnFail(s, markers, env) ==
  IF markers = <<>> THEN s
  ELSE LET s1 == add_predictor_point(s, markers, env)
       IN IF add_predictor_point_ok(s, env)
          THEN on_mask_modified(set_mask(s1, OracleMask(s, markers)))
          ELSE on_mask_modified(clearMask(s1))

apply_sam_with_markers(s, markers, env) ==
  IF markers = <<>> THEN s
  ELSE LET s1 == add_predictor_point(s, markers, env)
       IN IF add_predictor_point_ok(s, env)
          THEN on_mask_modified(set_mask(s1, OracleMask(s, markers)))
          ELSE s1

\* an apply_sam_with_point that passes the new point only (C6 is tried on it)
apply_sam_with_point_NewOnly(s, point, env) ==
  apply_sam_with_markers(s, <<point>>, env)

\* apply_sam_with_point: "Get all current markers from canvas"
apply_sam_with_point(s, point, env) ==
  apply_sam_with_markers(s, s.canvas.sam_markers, env)

on_sam_marker_placed(s, point, env) ==
  LET current_path == s.image_manager.current_image_path
  IN IF current_path = "" THEN s
     ELSE IF ~s.window.sam_loaded \/ s.window.current_sam_image # current_path
       THEN IF load_sam_for_current_image_ok(s, env)
            THEN apply_sam_with_point(load_sam_for_current_image(s, env), point, env)
            ELSE load_sam_for_current_image(s, env)
     ELSE apply_sam_with_point(s, point, env)

on_sam_marker_removed(s, env) ==
  IF ~s.window.sam_loaded THEN s
  ELSE IF s.canvas.sam_markers # <<>>
    THEN apply_sam_with_markers(s, s.canvas.sam_markers, env)
  ELSE on_mask_modified(clearMask(s))

\* SAM_MARKER_REMOVED: subscribed by MainWindow.on_sam_marker_removed only
publish_SAM_MARKER_REMOVED(s, env) ==
  on_sam_marker_removed(LogEvent(s, "SAM_MARKER_REMOVED"), env)

\* SAM_MARKER_ADDED has no subscriber
publish_SAM_MARKER_ADDED(s) == LogEvent(s, "SAM_MARKER_ADDED")

\* an apply_auto_sam_point that passes the marker list (C7 is tried on it)
apply_auto_sam_point_Markers(s, point, env) ==
  apply_sam_with_markers(s, s.canvas.sam_markers, env)

\* an apply_auto_sam_point that also records the detected point as a marker
\* (C32 is tried on it)
apply_auto_sam_point_AddsMarker(s, point, env) ==
  LET s1 == add_predictor_point(s, <<point>>, env)
  IN IF add_predictor_point_ok(s, env)
     THEN on_mask_modified(set_mask([s1 EXCEPT !.canvas.sam_markers = Append(@, point)],
                                    OracleMask(s, <<point>>)))
     ELSE s1

apply_auto_sam_point(s, point, env) ==
  LET s1 == add_predictor_point(s, <<point>>, env)
  IN IF add_predictor_point_ok(s, env)
     THEN on_mask_modified(set_mask(s1, OracleMask(s, <<point>>)))
     ELSE s1

\* "if centroid_point:" is false for None and for the null point QPoint(0, 0)
apply_auto_sam_detected(s, env) ==
  LET s1 == [s EXCEPT !.trace.detected = Append(@, env.centroid)]
  IN IF env.centroid # NoCentroid /\ env.centroid # <<0, 0>>
     THEN apply_auto_sam_point(s1, env.centroid, env)
     ELSE s1

apply_auto_sam(s, image_path, env) ==
  IF image_path = "" THEN s
  ELSE IF ~s.window.sam_loaded \/ s.window.current_sam_image # image_path
    THEN IF load_sam_for_current_image_ok(s, env)
         THEN apply_auto_sam_detected(load_sam_for_current_image(s, env), env)
         ELSE load_sam_for_current_image(s, env)
  ELSE apply_auto_sam_detected(s, env)

on_auto_sam_toggled(s, enabled, env) ==
  IF enabled /\ s.image_manager.current_image_path # ""
  THEN apply_auto_sam(s, s.image_manager.current_image_path, env)
  ELSE s

(***************************************************************************)
(* DrawingCanvas: SAM markers.                                             *)
(***************************************************************************)
\* the squared Euclidean distance; distance <= threshold is compared as
\* squared distance <= threshold squared
Dist2(p, q) == (p[1] - q[1]) * (p[1] - q[1]) + (p[2] - q[2]) * (p[2] - q[2])

\* the loop without the test against the threshold (C3 is tried on it)
RECURSIVE NearestScan_AnyDistance(_, _, _, _, _, _)
NearestScan_AnyDistance(markers, position, threshold, i, nearest, min_d2) ==
  IF i > Len(markers) THEN nearest
  ELSE LET d2 == Dist2(markers[i], position)
       IN IF nearest = 0 \/ d2 < min_d2
          THEN NearestScan_AnyDistance(markers, position, threshold, i + 1, i, d2)
          ELSE NearestScan_AnyDistance(markers, position, threshold, i + 1,
                                       nearest, min_d2)

\* the loop with "distance <= min_distance", which prefers the latest of
\* equidistant markers (C4 is tried on it)
RECURSIVE NearestScan_LastTie(_, _, _, _, _, _)
NearestScan_LastTie(markers, position, threshold, i, nearest, min_d2) ==
  IF i > Len(markers) THEN nearest
  ELSE LET d2 == Dist2(markers[i], position)
       IN IF (nearest = 0 \/ d2 <= min_d2) /\ d2 <= threshold * threshold
          THEN NearestScan_LastTie(markers, position, threshold, i + 1, i, d2)
          ELSE NearestScan_LastTie(markers, position, threshold, i + 1,
                                   nearest, min_d2)

\* the loop of remove_nearest_marker from index i on: nearest is the index
\* found so far (0: none), whose squared distance is min_d2
RECURSIVE NearestScan(_, _, _, _, _, _)
NearestScan(markers, position, threshold, i, nearest, min_d2) ==
  IF i > Len(markers) THEN nearest
  ELSE LET d2 == Dist2(markers[i], position)
       IN IF (nearest = 0 \/ d2 < min_d2) /\ d2 <= threshold * threshold
          THEN NearestScan(markers, position, threshold, i + 1, i, d2)
          ELSE NearestScan(markers, position, threshold, i + 1, nearest, min_d2)

\* nearest_index of remove_nearest_marker, 1-based; 0 when none is found
NearestIndex(markers, position, threshold) ==
  NearestScan(markers, position, threshold, 1, 0, 0)

\* list.pop(index)
Pop(seq, i) == SubSeq(seq, 1, i - 1) \o SubSeq(seq, i + 1, Len(seq))

remove_nearest_marker(s, position, threshold, env) ==
  LET markers == s.canvas.sam_markers
      nearest_index == NearestIndex(markers, position, threshold)
  IN IF markers = <<>> \/ nearest_index = 0 THEN s
     ELSE publish_SAM_MARKER_REMOVED(
            [s EXCEPT !.canvas.sam_markers = Pop(markers, nearest_index),
                      !.trace.removed = nearest_index,
                      !.trace.removed_from = markers],
            env)

\* a left press whose request is issued before the marker is appended (C23
\* is tried on it)
add_sam_marker_RequestFirst(s, pos, env) ==
  LET image_pos == convert_to_image_coords(s.canvas, pos)
      s1 == on_sam_marker_placed(s, image_pos, env)
  IN publish_SAM_MARKER_ADDED([s1 EXCEPT !.canvas.sam_markers = Append(@, image_pos)])

\* the Marker branch of mousePressEvent for the left button
add_sam_marker(s, pos, env) ==
  LET image_pos == convert_to_image_coords(s.canvas, pos)
      s1 == [s EXCEPT !.canvas.sam_markers = Append(@, image_pos)]
  IN publish_SAM_MARKER_ADDED(on_sam_marker_placed(s1, image_pos, env))

\* a mousePressEvent that keeps the widget position of a Brush press as
\* lastPoint (C37 is tried on it)
mousePressEvent_WidgetPoint(s, pos, button, env) ==
  LET c == s.canvas
      s1 == IF c.current_tool = "brush" /\ button = "left"
              THEN [s EXCEPT !.canvas.drawing = TRUE, !.canvas.erasing = FALSE,
                             !.canvas.lastPoint = pos]
            ELSE IF c.current_tool = "brush" /\ button = "right"
              THEN [s EXCEPT !.canvas.drawing = FALSE, !.canvas.erasing = TRUE,
                             !.canvas.lastPoint = pos]
            ELSE IF c.current_tool = "marker" /\ button = "left"
              THEN add_sam_marker(s, pos, env)
            ELSE IF c.current_tool = "marker" /\ button = "right"
              THEN remove_nearest_marker(s, convert_to_image_coords(c, pos),
                                         DefaultThreshold, env)
            ELSE s
  IN IF button = "middle"
     THEN [s1 EXCEPT !.canvas.panning = TRUE, !.canvas.panStart = pos]
     ELSE s1

mousePressEvent(s, pos, button, env) ==
  LET c == s.canvas
      s1 == IF c.current_tool = "brush" /\ button = "left"
              THEN [s EXCEPT !.canvas.drawing = TRUE, !.canvas.erasing = FALSE,
                             !.canvas.lastPoint = convert_to_image_coords(c, pos)]
            ELSE IF c.current_tool = "brush" /\ button = "right"
              THEN [s EXCEPT !.canvas.drawing = FALSE, !.canvas.erasing = TRUE,
                             !.canvas.lastPoint = convert_to_image_coords(c, pos)]
            ELSE IF c.current_tool = "marker" /\ button = "left"
              THEN add_sam_marker(s, pos, env)
            ELSE IF c.current_tool = "marker" /\ button = "right"
              THEN remove_nearest_marker(s, convert_to_image_coords(c, pos),
                                         DefaultThreshold, env)
            ELSE s
  IN IF button = "middle"
     THEN [s1 EXCEPT !.canvas.panning = TRUE, !.canvas.panStart = pos]
     ELSE s1

\* a stroke segment drawn on the mask by QPainter.drawLine
Stroke(mode, from, to, penWidth) ==
  [mode |-> mode, from |-> from, to |-> to, penWidth |-> penWidth]

\* a draw_segment that paints also when erasing (C20 is tried on it)
draw_segment_PaintOnly(s, mode, pos) ==
  LET c == s.canvas
      current_point == convert_to_image_coords(c, pos)
      c1 == [c EXCEPT !.mask.strokes =
                        Append(@, Stroke("paint", c.lastPoint, current_point, c.penWidth)),
                      !.lastPoint = current_point]
  IN emit_mask_changed([s EXCEPT !.canvas = update_scaled_image(c1)])

draw_segment(s, mode, pos) ==
  LET c == s.canvas
      current_point == convert_to_image_coords(c, pos)
      c1 == [c EXCEPT !.mask.strokes =
                        Append(@, Stroke(mode, c.lastPoint, current_point, c.penWidth)),
                      !.lastPoint = current_point]
  IN emit_mask_changed([s EXCEPT !.canvas = update_scaled_image(c1)])

\* mouseMoveEvent with the buttons held (event.buttons())
mouseMoveEvent(s, pos, held) ==
  LET s0 == [s EXCEPT !.canvas.show_cursor = TRUE]
      c == s0.canvas
      s1 == IF c.current_tool = "brush" /\ c.mask.kind # "null"
            THEN IF "left" \in held /\ c.drawing THEN draw_segment(s0, "paint", pos)
                 ELSE IF "right" \in held /\ c.erasing THEN draw_segment(s0, "erase", pos)
                 ELSE s0
            ELSE s0
  IN IF s1.canvas.panning
     THEN [s1 EXCEPT !.canvas =
             adjust_pan_offset(
               [s1.canvas EXCEPT !.panOffset = <<@[1] + pos[1] - c.panStart[1],
                                                 @[2] + pos[2] - c.panStart[2]>>,
                                 !.panStart = pos,
                                 !.viewSteps = @ + 1])]
     ELSE s1

mouseReleaseEvent(s, button) ==
  IF button = "left" THEN [s EXCEPT !.canvas.drawing = FALSE]
  ELSE IF button = "right" THEN [s EXCEPT !.canvas.erasing = FALSE]
  ELSE IF button = "middle" THEN [s EXCEPT !.canvas.panning = FALSE]
  ELSE s

leaveEvent(s) == [s EXCEPT !.canvas.show_cursor = FALSE]

enterEvent(s) == [s EXCEPT !.canvas.show_cursor = TRUE]

\* a set_opacity that applies the opacity to the stored mask, which leaves
\* nothing of it at opacity 0 (C21 is tried on it)
set_opacity_OnMask(s, value) ==
  [s EXCEPT !.canvas.opacity = value,
            !.canvas.mask = IF value = 0 /\ @.kind # "null"
                            THEN TransparentMask(<<@.w, @.h>>) ELSE @]

\* the slider's opacity_changed signal is connected to set_opacity
set_opacity(s, value) == [s EXCEPT !.canvas.opacity = value]

\* the slider's brush_size_changed signal is connected to set_penWidth
set_penWidth(s, value) == [s EXCEPT !.canvas.penWidth = value]

(***************************************************************************)
(* ImageManager.  The experiment has one folder; image_manager.selected    *)
(* says whether it is among selected_folders.                              *)
(***************************************************************************)
has_mask(s, image_path) == image_path \in s.disk.mask_files

get_folder_images(s) ==
  LET Unlabelled(f) == ~has_mask(s, f)
      Labelled(f) == has_mask(s, f)
  IN IF s.image_manager.viewing_mode = "unlabelled" THEN SelectSeq(Files, Unlabelled)
     ELSE IF s.image_manager.viewing_mode = "labelled" THEN SelectSeq(Files, Labelled)
     ELSE Files

refresh_image_pool(s) ==
  IF ~s.image_manager.selected
  THEN [s EXCEPT !.image_manager.image_pool = <<>>,
                 !.image_manager.current_image_path = "",
                 !.image_manager.current_image_index = 0]
  ELSE LET pool == get_folder_images(s)
       IN [s EXCEPT !.image_manager.image_pool = pool,
                    !.image_manager.current_image_index = 0,
                    !.image_manager.current_image_path =
                       IF pool # <<>> THEN pool[1] ELSE ""]

set_viewing_mode(s, mode) ==
  refresh_image_pool([s EXCEPT !.image_manager.viewing_mode = mode])

set_selected_folders(s, selected) ==
  refresh_image_pool([s EXCEPT !.image_manager.selected = selected])

\* get_image_by_index with a 0-based index; the state is unchanged when it
\* returns None
get_image_by_index(s, index) ==
  LET pool == s.image_manager.image_pool
  IN IF pool = <<>> \/ index < 0 \/ index >= Len(pool) THEN s
     ELSE [s EXCEPT !.image_manager.current_image_index = index,
                    !.image_manager.current_image_path = pool[index + 1]]

\* random.randint(0, len(pool) - 1) is the choice r reduced to the pool
image_manager_get_random_image(s, r) ==
  LET s1 == refresh_image_pool(s)
      pool == s1.image_manager.image_pool
  IN IF pool = <<>> THEN s1
     ELSE [s1 EXCEPT !.image_manager.current_image_index = r % Len(pool),
                     !.image_manager.current_image_path = pool[(r % Len(pool)) + 1]]

image_manager_get_next_image(s) ==
  LET pool == s.image_manager.image_pool
  IN IF pool = <<>> THEN s
     ELSE get_image_by_index(s, (s.image_manager.current_image_index + 1) % Len(pool))

\* a get_previous_image without the wrap to the end of the pool (C36 is
\* tried on it)
image_manager_get_previous_image_NoWrap(s) ==
  LET pool == s.image_manager.image_pool
  IN IF pool = <<>> THEN s
     ELSE get_image_by_index(s, s.image_manager.current_image_index - 1)

image_manager_get_previous_image(s) ==
  LET pool == s.image_manager.image_pool
  IN IF pool = <<>> THEN s
     ELSE get_image_by_index(s, (s.image_manager.current_image_index - 1) % Len(pool))

\* save_mask returns True exactly when there is a current image and
\* QImage.save succeeds; a null QImage cannot be saved
image_manager_save_mask_ok(s, write_ok) ==
  /\ s.image_manager.current_image_path # ""
  /\ s.canvas.mask.kind # "null"
  /\ write_ok

image_manager_save_mask(s, write_ok) ==
  IF image_manager_save_mask_ok(s, write_ok)
  THEN publish_MASK_CREATED(
         [s EXCEPT !.disk.mask_files = @ \cup {s.image_manager.current_image_path}])
  ELSE s

(***************************************************************************)
(* ImageManager: the batch crop.  existing is the set of images whose      *)
(* cropped output exists, outcome what happens to each image that is       *)
(* cropped ("ok", "mask_unreadable": cv2.imread of the mask gives None,    *)
(* "raises": the masking or mkdir raises, "write_fail": cv2.imwrite gives  *)
(* False), and acc the outputs written, their count and the items tried.   *)
(***************************************************************************)
\* crop_image_by_mask returns True exactly when the image and the mask are
\* read, nothing raises and cv2.imwrite succeeds
crop_image_by_mask(image_path, outcome) ==
  FileInfo[image_path].readable /\ outcome[image_path] = "ok"

\* a loop that a failed item ends (C18 is tried on it)
RECURSIVE crop_loop_AbortOnFailure(_, _, _, _, _, _, _)
crop_loop_AbortOnFailure(s, folder_images, i, existing, overwrite, outcome, acc) ==
  IF i > Len(folder_images) THEN acc
  ELSE LET image_path == folder_images[i]
       IN IF has_mask(s, image_path) /\ (overwrite \/ image_path \notin existing)
          THEN IF crop_image_by_mask(image_path, outcome)
               THEN crop_loop_AbortOnFailure(
                      s, folder_images, i + 1, existing, overwrite, outcome,
                      [written |-> Append(acc.written, image_path),
                       total_cropped |-> acc.total_cropped + 1,
                       tried |-> Append(acc.tried, image_path)])
               ELSE [acc EXCEPT !.tried = Append(@, image_path)]
          ELSE crop_loop_AbortOnFailure(s, folder_images, i + 1, existing,
                                        overwrite, outcome, acc)

\* a loop that skips no image whose output exists (C17 is tried on it)
RECURSIVE crop_loop_AlwaysOverwrite(_, _, _, _, _, _, _)
crop_loop_AlwaysOverwrite(s, folder_images, i, existing, overwrite, outcome, acc) ==
  IF i > Len(folder_images) THEN acc
  ELSE LET image_path == folder_images[i]
           success == crop_image_by_mask(image_path, outcome)
       IN IF has_mask(s, image_path)
          THEN crop_loop_AlwaysOverwrite(
                 s, folder_images, i + 1, existing, overwrite, outcome,
                 [written |-> IF success THEN Append(acc.written, image_path)
                              ELSE acc.written,
                  total_cropped |-> acc.total_cropped + (IF success THEN 1 ELSE 0),
                  tried |-> Append(acc.tried, image_path)])
          ELSE crop_loop_AlwaysOverwrite(s, folder_images, i + 1, existing,
                                         overwrite, outcome, acc)

\* the loop of crop_all_images_by_masks over the images of the folder, from
\* index i on
RECURSIVE crop_loop(_, _, _, _, _, _, _)
crop_loop(s, folder_images, i, existing, overwrite, outcome, acc) ==
  IF i > Len(folder_images) THEN acc
  ELSE LET image_path == folder_images[i]
           success == crop_image_by_mask(image_path, outcome)
       IN IF has_mask(s, image_path) /\ (overwrite \/ image_path \notin existing)
          THEN crop_loop(
                 s, folder_images, i + 1, existing, overwrite, outcome,
                 [written |-> IF success THEN Append(acc.written, image_path)
                              ELSE acc.written,
                  total_cropped |-> acc.total_cropped + (IF success THEN 1 ELSE 0),
                  tried |-> Append(acc.tried, image_path)])
          ELSE crop_loop(s, folder_images, i + 1, existing, overwrite, outcome, acc)

\* crop_all_images_by_masks: get_folder_images_all gives every image of the
\* folder, whatever the viewing mode; the count is logged
crop_all_images_by_masks(s, existing, overwrite, outcome) ==
  crop_loop(s, Files, 1, existing, overwrite, outcome,
            [written |-> <<>>, total_cropped |-> 0, tried |-> <<>>])

(***************************************************************************)
(* MainWindow: navigation and saving.                                      *)
(***************************************************************************)
update_gui_no_image(s) ==
  LET s1 == clearMask(displayPlaceholder(s))
  IN [s1 EXCEPT !.window.image_controls_enabled = FALSE,
                !.drawing_tools.enabled = FALSE,
                !.window.navigation_enabled = (s1.image_manager.image_pool # <<>>),
                !.window.mask_is_saved = TRUE,
                !.window.current_mask_modified = FALSE]

\* load_image_path(file_path, mask_path): file_path "" is None; the mask
\* path is get_image_mask(), not None exactly when the image has a mask
load_image_path(s, file_path, env) ==
  IF file_path # ""
  THEN LET s1 == loadImage(update_gui_image(s), file_path)
           s2 == IF has_mask(s, file_path) THEN loadMask(s1, file_path)
                 ELSE clearMask(s1)
           s3 == [s2 EXCEPT !.window.mask_is_saved = TRUE,
                            !.window.current_mask_modified = FALSE,
                            !.window.sam_loaded = FALSE,
                            !.window.current_sam_image = "none",
                            !.trace.loaded = file_path]
       IN IF s3.drawing_tools.auto_sam THEN apply_auto_sam(s3, file_path, env)
          ELSE s3
  ELSE update_gui_no_image(s)

get_random_image(s, r, env) ==
  LET s1 == image_manager_get_random_image(s, r)
  IN load_image_path(s1, IF s1.image_manager.image_pool # <<>>
                         THEN s1.image_manager.current_image_path ELSE "", env)

get_next_image(s, env) ==
  IF s.image_manager.image_pool # <<>>
  THEN LET s1 == image_manager_get_next_image(s)
       IN load_image_path(s1, s1.image_manager.current_image_path, env)
  ELSE s

get_previous_image(s, env) ==
  IF s.image_manager.image_pool # <<>>
  THEN LET s1 == image_manager_get_previous_image(s)
       IN load_image_path(s1, s1.image_manager.current_image_path, env)
  ELSE s

update_canvas_state(s, r, env) ==
  IF s.image_manager.image_pool # <<>> THEN get_random_image(s, r, env)
  ELSE load_image_path(s, "", env)

on_folders_changed(s, selected, r, env) ==
  update_canvas_state(set_selected_folders(s, selected), r, env)

on_image_source_toggled(s, mode, r, env) ==
  update_canvas_state(set_viewing_mode(s, mode), r, env)

\* apply_threshold: the exception of applyThreshold leaves the slot before
\* on_mask_modified
apply_threshold(s, threshold_value) ==
  LET current_path == s.image_manager.current_image_path
  IN IF current_path = "" THEN s
     ELSE IF threshold_image_ok(current_path)
       THEN on_mask_modified(applyThreshold(s, threshold_value, current_path))
     ELSE applyThreshold(s, threshold_value, current_path)

save_mask(s, write_ok) ==
  IF image_manager_save_mask_ok(s, write_ok)
  THEN [image_manager_save_mask(s, write_ok)
          EXCEPT !.window.mask_is_saved = TRUE,
                 !.window.current_mask_modified = FALSE]
  ELSE s

save_and_get_next(s, write_ok, r, env) ==
  get_random_image(save_mask(s, write_ok), r, env)

(***************************************************************************)
(* FolderManager and DrawingTools.                                         *)
(***************************************************************************)
\* get_selected_folders: the check state of the folder in the enabled list
get_selected_folders(s) ==
  IF s.folder_manager.current_mode = "unlabelled"
  THEN s.folder_manager.unlabelled_checked
  ELSE s.folder_manager.labelled_checked

\* the user checks or unchecks the folder in the enabled list
on_folder_selection_changed(s, r, env) ==
  on_folders_changed(s, get_selected_folders(s), r, env)

toggle_image_source(s, r1, env1, r2, env2) ==
  LET mode == IF s.folder_manager.current_mode = "unlabelled"
              THEN "labelled" ELSE "unlabelled"
      s1 == on_image_source_toggled(
              [s EXCEPT !.folder_manager.current_mode = mode], mode, r1, env1)
  IN on_folder_selection_changed(s1, r2, env2)

drawing_tools_on_tool_changed(s, tool) ==
  publish_TOOL_CHANGED([s EXCEPT !.drawing_tools.current_tool = tool], tool)

on_clear_clicked(s) == publish_MASK_CLEARED(s)

\* on_threshold_clicked: threshold_applied is connected to
\* MainWindow.apply_threshold; the value is the slider's
on_threshold_clicked(s, threshold_value) == apply_threshold(s, threshold_value)

\* AUTO_SAM_TOGGLED has no subscriber
drawing_tools_on_auto_sam_toggled(s, is_checked, env) ==
  LogEvent(on_auto_sam_toggled([s EXCEPT !.drawing_tools.auto_sam = is_checked],
                               is_checked, env),
           "AUTO_SAM_TOGGLED")

(***************************************************************************)
(* Rasters pixel by pixel, for threshold_image and crop_by_mask.  A raster *)
(* is the sequence of its rows, a row the sequence of its pixels.  The     *)
(* pixel of a 16-bit or 8-bit grey image is its sample; of an RGB image    *)
(* <<r, g, b>>; of an ARGB32 mask its bytes in memory <<b, g, r, a>>; of a  *)
(* cv2 colour array <<b, g, r>>.                                           *)
(***************************************************************************)
\* a threshold_image that cuts off at "rescaled >= threshold" (C15 is tried
\* on it)
threshold_pixel_Inclusive(sample, threshold) ==
  IF Min(RoundDiv(sample * 255, 65535), 255) >= threshold
  THEN <<0, 0, 0, 0>> ELSE <<255, 0, 0, 255>>

\* one pixel of threshold_image: cv2.convertScaleAbs(image, alpha=255/65535)
\* rounds sample * 255 / 65535 to the nearest integer (no sample lies half
\* way) and saturates at 255; cv2.threshold(.., threshold, 255,
\* THRESH_BINARY) gives 255 above the cutoff and 0 otherwise; the mask bytes
\* are [0, 0, 0, 0] for 255 and [255, 0, 0, 255] for 0
threshold_pixel(sample, threshold) ==
  LET image_8bit == Min(RoundDiv(sample * 255, 65535), 255)
      binary_mask == IF image_8bit > threshold THEN 255 ELSE 0
  IN IF binary_mask = 255 THEN <<0, 0, 0, 0>> ELSE <<255, 0, 0, 255>>

\* threshold_image for an image that cv2.imread gives as a uint16 array
threshold_image(image, threshold) ==
  [y \in DOMAIN image |->
     [x \in DOMAIN image[y] |-> threshold_pixel(image[y][x], threshold)]]

\* mask.pixelColor(x, y).alpha(): outside the mask pixelColor returns the
\* invalid QColor(), whose alpha() is 255
pixelColor_alpha(mask, x, y) ==
  IF y \in DOMAIN mask /\ x \in DOMAIN mask[y] THEN mask[y][x] ELSE 255

\* QImageToCvMat, one pixel: the QImage is saved as PNG and decoded by
\* cv2.imdecode(.., cv2.IMREAD_COLOR), which always gives 8-bit <<b, g, r>>:
\* a grey sample fills the three channels, and of a 16-bit sample the high
\* byte is kept
QImageToCvMat(format, pixel) ==
  IF format = "rgb8" THEN <<pixel[3], pixel[2], pixel[1]>>
  ELSE IF format = "gray8" THEN <<pixel, pixel, pixel>>
  ELSE <<pixel \div 256, pixel \div 256, pixel \div 256>>

\* DrawingCanvas.crop_by_mask on the image [format, rows] and the alpha
\* channel of the mask; <<>> is the null QImage, and the None it returns
crop_by_mask(image, mask) ==
  IF image.rows = <<>> \/ mask = <<>> THEN <<>>
  ELSE LET white == IF image.format = "rgb8" THEN <<255, 255, 255>>
                    ELSE IF image.format = "gray8" THEN 255 ELSE 65535
           cropped_image ==
             [y \in DOMAIN image.rows |->
                [x \in DOMAIN image.rows[y] |->
                   IF pixelColor_alpha(mask, x, y) = 0 THEN white
                   ELSE image.rows[y][x]]]
       IN [y \in DOMAIN cropped_image |->
             [x \in DOMAIN cropped_image[y] |->
                QImageToCvMat(image.format, cropped_image[y][x])]]

(***************************************************************************)
(* EventBus.  _subscribers maps an event type to the list of its           *)
(* callbacks; a type without entry behaves as one with the empty list.     *)
(* A callback is named by what it does when it is invoked: "p" and "q"     *)
(* return, "raiser" raises an exception, "unsub_self" unsubscribes         *)
(* itself, "unsub_p" unsubscribes "p" and "sub_q" subscribes "q", each for *)
(* the type of the event it is given.                                      *)
(***************************************************************************)
EventTypes == {"MASK_CREATED", "MASK_CLEARED"}

NewEventBus == [event_type \in EventTypes |-> <<>>]

subscribe(subscribers, event_type, callback) ==
  [subscribers EXCEPT ![event_type] = Append(@, callback)]

\* list.remove: the first occurrence goes, ValueError is passed over
unsubscribe(subscribers, event_type, callback) ==
  LET list == subscribers[event_type]
  IN IF \E i \in DOMAIN list : list[i] = callback
     THEN LET first == CHOOSE i \in DOMAIN list :
                         /\ list[i] = callback
                         /\ \A j \in 1..(i - 1) : list[j] # callback
          IN [subscribers EXCEPT ![event_type] =
                SubSeq(list, 1, first - 1) \o SubSeq(list, first + 1, Len(list))]
     ELSE subscribers

\* callback(event): the subscriptions after the call
invoke(subscribers, event_type, callback) ==
  IF callback = "unsub_self" THEN unsubscribe(subscribers, event_type, "unsub_self")
  ELSE IF callback = "unsub_p" THEN unsubscribe(subscribers, event_type, "p")
  ELSE IF callback = "sub_q" THEN subscribe(subscribers, event_type, "q")
  ELSE subscribers

RECURSIVE publish_loop_StopOnRaise(_, _, _, _)
\* a publish without try/except around the callback (C31 is tried on it)
publish_loop_StopOnRaise(subscribers, event_type, i, calls) ==
  IF i > Len(subscribers[event_type])
  THEN [subscribers |-> subscribers, calls |-> calls]
  ELSE LET callback == subscribers[event_type][i]
       IN IF callback = "raiser"
          THEN [subscribers |-> subscribers, calls |-> Append(calls, callback)]
          ELSE publish_loop_StopOnRaise(invoke(subscribers, event_type, callback),
                                        event_type, i + 1, Append(calls, callback))

RECURSIVE publish_loop(_, _, _, _)
\* "for callback in self._subscribers[event.event_type]": the list iterator
\* keeps a position in the list object, which subscribe and unsubscribe
\* change in place; an exception of the callback is logged and the loop
\* goes on.  calls lists the callbacks invoked.
publish_loop(subscribers, event_type, i, calls) ==
  IF i > Len(subscribers[event_type])
  THEN [subscribers |-> subscribers, calls |-> calls]
  ELSE LET callback == subscribers[event_type][i]
       IN publish_loop(invoke(subscribers, event_type, callback),
                       event_type, i + 1, Append(calls, callback))

publish(subscribers, event_type) == publish_loop(subscribers, event_type, 1, <<>>)

(***************************************************************************)
(* ImageManager: the paths of masks and cropped images.  A path is the     *)
(* sequence of its components, as pathlib.Path keeps it; files is the set  *)
(* of the paths of the files that exist.                                   *)
(***************************************************************************)
\* ExperimentService: base_path / "Data", / "Labels", / "Cropped"
data_path == <<"exp", "Data">>
labels_path == <<"exp", "Labels">>
cropped_path == <<"exp", "Cropped">>

\* path.relative_to(root) succeeds exactly when root's components begin path
is_relative_to(path, root) ==
  Len(root) <= Len(path) /\ SubSeq(path, 1, Len(root)) = root

\* a relative_to that keeps the file name only (C27 is tried on it)
relative_to_Name(path, root) == <<path[Len(path)]>>

\* path.relative_to(root) when it does not raise ValueError
relative_to(path, root) == SubSeq(path, Len(root) + 1, Len(path))

\* has_mask on the files that exist: ValueError is caught and gives False
path_has_mask(files, image_path) ==
  /\ is_relative_to(image_path, data_path)
  /\ (labels_path \o relative_to(image_path, data_path)) \in files

\* get_mask_path: None without mask
get_mask_path(files, image_path) ==
  IF ~path_has_mask(files, image_path) THEN "None"
  ELSE labels_path \o relative_to(image_path, data_path)

\* ImageManager.save_mask for the current image path: the files afterwards
\* and the value returned; QImage.save succeeds or not (save_ok)
path_save_mask(files, current_image_path, save_ok) ==
  IF current_image_path = <<>> \/ ~is_relative_to(current_image_path, data_path)
  THEN [files |-> files, success |-> FALSE]
  ELSE IF save_ok
  THEN [files |-> files \cup {labels_path \o relative_to(current_image_path, data_path)},
        success |-> TRUE]
  ELSE [files |-> files, success |-> FALSE]

cropped_image_exists(files, image_path) ==
  /\ is_relative_to(image_path, data_path)
  /\ (cropped_path \o relative_to(image_path, data_path)) \in files

\* the saving part of crop_image_by_mask, once image and mask are read:
\* cv2.imwrite succeeds or not (write_ok)
path_crop_image_by_mask(files, image_path, write_ok) ==
  IF ~is_relative_to(image_path, data_path)
  THEN [files |-> files, success |-> FALSE]
  ELSE IF write_ok
  THEN [files |-> files \cup {cropped_path \o relative_to(image_path, data_path)},
        success |-> TRUE]
  ELSE [files |-> files, success |-> FALSE]

(***************************************************************************)
(* AutoSamService.generate_auto_mask on an 8-bit grey raster (a sequence   *)
(* of rows).  A pixel is <<row, column>>, counted from 0.                  *)
(***************************************************************************)
RasterPixels(image) ==
  IF image = <<>> THEN {}
  ELSE {<<r, c>> : r \in 0..(Len(image) - 1), c \in 0..(Len(image[1]) - 1)}

PixelValue(image, p) == image[p[1] + 1][p[2] + 1]

RECURSIVE SumOf(_, _, _)
\* the sum of the values (axis 0) or of a coordinate (axis 1: row, 2: column)
\* over a set of pixels
SumOf(image, pixels, axis) ==
  IF pixels = {} THEN 0
  ELSE LET p == CHOOSE q \in pixels : TRUE
       IN (IF axis = 0 THEN PixelValue(image, p) ELSE p[axis])
            + SumOf(image, pixels \ {p}, axis)

\* Otsu's threshold as cv2.threshold computes it: the first level of the
\* greatest between-class variance q1*q2*(mu1 - mu2)^2 among the levels
\* that leave both classes non-empty, 0 when there is none.  For the level
\* v the variance is below[v]^2 / (n1 * n2) up to the factor 1/N^2.
otsu_threshold(image) ==
  LET all == RasterPixels(image)
      low(v) == {p \in all : PixelValue(image, p) <= v}
      n1(v) == Cardinality(low(v))
      n2(v) == Cardinality(all) - n1(v)
      num(v) == LET d == SumOf(image, low(v), 0) * n2(v)
                          - SumOf(image, all \ low(v), 0) * n1(v)
                IN d * d
      levels == {v \in {PixelValue(image, p) : p \in all} : n2(v) > 0}
      better(v, w) == num(v) * n1(w) * n2(w) > num(w) * n1(v) * n2(v)
  IN IF levels = {} THEN 0
     ELSE CHOOSE v \in levels :
            \A w \in levels : IF w < v THEN better(v, w) ELSE ~better(w, v)

\* cv2.threshold(image, 0, 255, THRESH_OTSU) and cv2.bitwise_not: 255 where
\* the pixel is not above the threshold
binarised_image(image) ==
  LET t == otsu_threshold(image)
  IN [r \in DOMAIN image |->
        [c \in DOMAIN image[r] |-> IF image[r][c] > t THEN 0 ELSE 255]]

RECURSIVE Flood(_, _)
\* the pixels of fg joined to the seed pixels through neighbours, diagonal
\* ones included (label's default connectivity in two dimensions)
Flood(fg, seeds) ==
  LET more == {q \in fg : \E p \in seeds :
                 Abs(q[1] - p[1]) <= 1 /\ Abs(q[2] - p[2]) <= 1}
  IN IF more \subseteq seeds THEN seeds ELSE Flood(fg, seeds \cup more)

RECURSIVE LabelScan(_, _, _)
LabelScan(binary, rest, labelled) ==
  IF rest = {} THEN labelled
  ELSE LET width == Len(binary[1])
           first == CHOOSE p \in rest :
                      \A q \in rest : p[1] * width + p[2] <= q[1] * width + q[2]
           region == Flood(rest, {first})
       IN LabelScan(binary, rest \ region, Append(labelled, region))

\* skimage.measure.label: the regions of non-zero pixels, numbered in the
\* order a row-by-row scan meets them; element i is the region labelled i
label(binary) ==
  LabelScan(binary, {p \in RasterPixels(binary) : PixelValue(binary, p) # 0}, <<>>)

\* regionprops: one entry per label, in label order
regionprops(labeled_mask) ==
  [i \in DOMAIN labeled_mask |->
     [label |-> i, area |-> Cardinality(labeled_mask[i]),
      coords |-> labeled_mask[i]]]

\* sorted(props, key=area, reverse=True)[0]: sorted is stable, also with
\* reverse=True, so of the regions of the greatest area the first stays first
largest_region(props) ==
  props[CHOOSE i \in DOMAIN props :
          \A j \in DOMAIN props :
            \/ props[j].area < props[i].area
            \/ props[j].area = props[i].area /\ i <= j]

\* a generate_auto_mask that keeps (row, column) order (C28 is tried on it)
generate_auto_mask_RowFirst(image) ==
  IF image = <<>> THEN NoCentroid
  ELSE LET props == regionprops(label(binarised_image(image)))
       IN IF props = <<>> THEN NoCentroid
          ELSE LET region == largest_region(props)
               IN <<SumOf(image, region.coords, 1) \div region.area,
                    SumOf(image, region.coords, 2) \div region.area>>

\* the point generate_auto_mask returns for the raster cv2.imread gave
\* (<<>>: None); centroid is (mean row, mean column), int() truncates
generate_auto_mask(image) ==
  IF image = <<>> THEN NoCentroid
  ELSE LET props == regionprops(label(binarised_image(image)))
       IN IF props = <<>> THEN NoCentroid
          ELSE LET region == largest_region(props)
               IN <<SumOf(image, region.coords, 2) \div region.area,
                    SumOf(image, region.coords, 1) \div region.area>>

\* a convert_sam_mask_to_qimage that makes the background opaque black (C25
\* is tried on it)
convert_sam_mask_to_qimage_Opaque(mask) ==
  [y \in DOMAIN mask |->
     [x \in DOMAIN mask[y] |->
        IF mask[y][x] THEN <<0, 0, 255, 255>> ELSE <<0, 0, 0, 255>>]]

\* convert_sam_mask_to_qimage on the boolean array predictor.predict
\* returns: the bytes <<r, g, b, a>> of each pixel of the RGBA8888 image
convert_sam_mask_to_qimage(mask) ==
  [y \in DOMAIN mask |->
     [x \in DOMAIN mask[y] |->
        IF mask[y][x] THEN <<0, 0, 255, 255>> ELSE <<0, 0, 0, 0>>]]

\* the pixels of the mask after one drawLine of mouseMoveEvent, as <<r, g,
\* b, a>>: covered says which pixels the line rasterises (no antialiasing
\* is set); painting puts penColor (Qt.blue, opaque) over them, erasing
\* clears them with CompositionMode_Clear
draw_line(mask, mode, covered) ==
  [y \in DOMAIN mask |->
     [x \in DOMAIN mask[y] |->
        IF ~covered[y][x] THEN mask[y][x]
        ELSE IF mode = "paint" THEN <<0, 0, 255, 255>>
        ELSE <<0, 0, 0, 0>>]]

\* the pixels of QImage(size, Format_ARGB32) after fill(Qt.transparent), in
\* clearMask, for an image with the rows given
fill_transparent(image) ==
  [y \in DOMAIN image |-> [x \in DOMAIN image[y] |-> <<0, 0, 0, 0>>]]

(***************************************************************************)
(* The inputs the model draws.                                             *)
(***************************************************************************)
\* pointer positions of left presses with the Marker tool: with image "a"
\* fitted to the 500x500 canvas they are the image points (10, 10) and
\* (30, 10)
LeftPoints == {<<16, 76>>, <<28, 76>>}
\* pointer positions of right presses with the Marker tool: the image points
\* (20, 10), (10, 30) and (10, 31), at distances 10, 20 and 21 from (10, 10)
RightPoints == {<<22, 76>>, <<16, 88>>, <<16, 89>>}
\* pointer positions of presses with the Brush tool, and of moves
BrushPoints == {<<16, 76>>}
MovePoints == {<<22, 76>>}
\* pointer positions of presses while navigating
NavPoints == {<<16, 76>>}
\* pointer positions of wheel and pan events
ViewPoints == {<<0, 0>>, <<300, 260>>}
\* a left press with the Marker tool on the image point (13, 13) of "a"
MarkerPoints == {<<18, 78>>}
\* the values the opacity slider (0..100) and the size slider (1..200) are
\* moved between
OpacityValues == {0, 50}
PenWidths == {25, 200}
\* widget sizes a resize may give the canvas
CanvasSizes == {<<500, 500>>, <<640, 500>>}
\* self.canvas.setMinimumSize(500, 500)
InitSize == <<500, 500>>
\* the values of the threshold slider
ThresholdValues == {0, 127}
\* the rasters of two pixels, one row or one column, over the pixel values
Rasters(values) ==
  {<<<<p, q>>>> : p \in values, q \in values}
    \cup {<<<<p>>, <<q>>>> : p \in values, q \in values}
\* 16-bit samples at both sides of the cutoffs 0, 127 and 254
SampleValues == {0, 128, 129, 32767, 32768, 65406, 65407, 65535}
ThresholdCutoffs == {0, 127, 254, 255}
\* the images crop_by_mask is given: 8-bit RGB, 8-bit grey, 16-bit grey, null
CropImages ==
  {[format |-> "rgb8", rows |-> r] : r \in Rasters({<<10, 20, 30>>, <<255, 255, 255>>})}
    \cup {[format |-> "gray8", rows |-> r] : r \in Rasters({0, 200})}
    \cup {[format |-> "gray16", rows |-> r] : r \in Rasters({0, 4660, 65535})}
    \cup {[format |-> "rgb8", rows |-> <<>>]}
\* the alpha channels of the masks crop_by_mask is given, and the null mask
CropMasks == Rasters({0, 1, 255}) \cup {<<>>}
\* the pixels <<r, g, b, a>> of the masks a stroke is drawn on: transparent,
\* the mask colour, and a half-transparent pixel of a mask file
StrokeMasks ==
  Rasters({<<0, 0, 0, 0>>, <<0, 0, 255, 255>>, <<0, 0, 255, 128>>})
\* the callbacks that leave the subscriptions alone, and those that change
\* them while an event is published
PlainCallbacks == {"p", "q", "raiser"}
ChangingCallbacks == {"p", "q", "unsub_self", "unsub_p", "sub_q"}
\* the longest list of callbacks of one event type
MaxSubscribers == 3
\* the grey rasters of three rows and three columns over three levels, and
\* the image that cannot be read
DetectLevels == {0, 100, 200}
DetectImages == [1..3 -> [1..3 -> DetectLevels]] \cup {<<>>}
\* image paths under the data root (same name in two folders, two
\* extensions, an image in the root itself) and outside it (under the
\* labels root, under a sibling whose name begins like the data root's,
\* elsewhere)
PathImages ==
  {<<"exp", "Data", "f1", "a.png">>, <<"exp", "Data", "f1", "a.tif">>,
   <<"exp", "Data", "f2", "a.png">>, <<"exp", "Data", "a.png">>,
   <<"exp", "Labels", "f1", "a.png">>, <<"exp", "DataX", "a.png">>,
   <<"a.png">>}
\* the mask files that exist when the program starts
InitMaskFiles == {"b", "d"}
\* the values random.choice may pick an image by
\* the picks from a pool of two images
PoolIndex == {0, 1}
FirstIndex == {0}

\* the ways set_sam_predictor fails: load_sam fails, cv2.imread returns
\* None, or SamPredictor.set_image raises
SetupFailures == {"load_fail", "read_fail", "embed_fail"}
\* the answers of an environment that is not asked
EnvNone == [setup |-> "ok", predict_ok |-> TRUE, centroid |-> NoCentroid]
\* the answers to a handler that may set up the predictor and predict
EnvPredict ==
  {[EnvNone EXCEPT !.predict_ok = p] : p \in BOOLEAN}
    \cup {[EnvNone EXCEPT !.setup = f] : f \in SetupFailures}
\* the answers to a handler that may also run the auto region detector:
\* the set-up fails in one way
EnvAutoFew ==
  {EnvNone, [EnvNone EXCEPT !.centroid = <<40, 30>>],
   [EnvNone EXCEPT !.centroid = <<40, 30>>, !.predict_ok = FALSE],
   [EnvNone EXCEPT !.centroid = <<40, 30>>, !.setup = "embed_fail"]}
\* the environments a navigation handler can meet: it asks only when Auto
\* SAM is checked
EnvLoad(envs) == IF drawing_tools.auto_sam THEN envs ELSE {EnvNone}

(***************************************************************************)
(* The state after MainWindow.__init__.                                    *)
(***************************************************************************)
NewCanvas ==
  [image |-> "null", mask |-> NullMask, scaled_image |-> <<0, 0>>,
   drawing |-> FALSE, erasing |-> FALSE, panning |-> FALSE,
   current_tool |-> "brush",
   lastPoint |-> <<0, 0>>, panStart |-> <<0, 0>>, panOffset |-> <<0, 0>>,
   show_cursor |-> FALSE, penWidth |-> 25, opacity |-> 50,
   scale_factor |-> <<9, 50>>, min_scale_factor |-> <<9, 50>>,
   sam_markers |-> <<>>,
   width |-> InitSize[1], height |-> InitSize[2],
   zoomLevel |-> 0, viewSteps |-> 0]

Constructed(mask_files) ==
  [canvas |-> NewCanvas,
   window |-> [sam_loaded |-> FALSE, current_sam_image |-> "none",
               mask_is_saved |-> TRUE, current_mask_modified |-> FALSE,
               progress_bar |-> FALSE,
               image_controls_enabled |-> FALSE, navigation_enabled |-> TRUE],
   model_service |-> [sam_model |-> FALSE, predictor |-> "none",
                      current_image |-> "none"],
   image_manager |-> [selected |-> FALSE, viewing_mode |-> "unlabelled",
                      image_pool |-> <<>>, current_image_path |-> "",
                      current_image_index |-> 0],
   drawing_tools |-> [current_tool |-> "brush", auto_sam |-> FALSE,
                      enabled |-> TRUE],
   folder_manager |-> [current_mode |-> "unlabelled",
                       unlabelled_checked |-> FALSE, labelled_checked |-> FALSE],
   disk |-> [mask_files |-> mask_files],
   buttons |-> {},
   trace |-> [op |-> "init"]]

\* initialize_application_state
initialize_application_state(s) ==
  update_gui_no_image(set_viewing_mode(s, "unlabelled"))

\* preload_sam_model: load_sam succeeds or not
preload_sam_model(s, load_ok) ==
  [s EXCEPT !.model_service.sam_model = load_ok]

\* no threshold or crop computation is under way
NoJob == [op |-> "none"]

\* the objects are in the state s
Program(s) ==
  /\ canvas = s.canvas
  /\ window = s.window
  /\ model_service = s.model_service
  /\ image_manager = s.image_manager
  /\ drawing_tools = s.drawing_tools
  /\ folder_manager = s.folder_manager
  /\ disk = s.disk
  /\ buttons = s.buttons
  /\ trace = s.trace

Init ==
  \E load_ok \in BOOLEAN :
    /\ Program(Begin(preload_sam_model(
                       initialize_application_state(Constructed(InitMaskFiles)),
                       load_ok),
                     "init", NoPoint))
    /\ job = NoJob

(***************************************************************************)
(* Actions: one per event handler.  Their parameters are the sets the      *)
(* inputs are drawn from.                                                  *)
(***************************************************************************)
\* whether the handler of a press would append a marker
AddsMarker(button) == canvas.current_tool = "marker" /\ button = "left"
\* whether the handler of a move would draw a stroke segment
DrawsSegment ==
  /\ canvas.current_tool = "brush" /\ canvas.mask.kind # "null"
  /\ \/ "left" \in buttons /\ canvas.drawing
     \/ "right" \in buttons /\ canvas.erasing

\* a press of a button that is not held, while one of the tools is active
MousePress(points, pressable, tools, envs) ==
  \E pos \in points, button \in pressable \ buttons :
    /\ canvas.current_tool \in tools
    /\ AddsMarker(button) => Len(canvas.sam_markers) < MaxMarkers
    /\ \E env \in envs :
         LET s == [Begin(State, "press_" \o button, pos)
                     EXCEPT !.buttons = @ \cup {button}]
         IN Commit(mousePressEvent(s, pos, button, env))

MouseMove(points) ==
  \E pos \in points :
    /\ DrawsSegment => Len(canvas.mask.strokes) < MaxStrokes
    /\ canvas.panning => canvas.viewSteps < MaxViewSteps
    /\ Commit(mouseMoveEvent(Begin(State, "move", pos), pos, buttons))

\* a move of a drag that may draw up to the given number of segments
MouseDrag(points, segments) ==
  \E pos \in points :
    /\ DrawsSegment => Len(canvas.mask.strokes) < segments
    /\ canvas.panning => canvas.viewSteps < MaxViewSteps
    /\ Commit(mouseMoveEvent(Begin(State, "move", pos), pos, buttons))

MouseRelease ==
  \E button \in buttons :
    LET s == [Begin(State, "release_" \o button, NoPoint)
                EXCEPT !.buttons = @ \ {button}]
    IN Commit(mouseReleaseEvent(s, button))

Wheel(points) ==
  \E pos \in points, zoom_in \in BOOLEAN :
    /\ zoom_in => canvas.zoomLevel < MaxZoomIn
    /\ canvas.viewSteps < MaxViewSteps
    /\ Commit(wheelEvent(Begin(State, "wheel", pos), pos, zoom_in))

Resize ==
  \E size \in CanvasSizes :
    /\ size # <<canvas.width, canvas.height>>
    /\ Commit(resizeEvent(Begin(State, "resize", NoPoint), size))

OpacityChanged ==
  \E value \in OpacityValues \ {canvas.opacity} :
    Commit(set_opacity(Begin(State, "opacity", NoPoint), value))

PenWidthChanged ==
  \E value \in PenWidths \ {canvas.penWidth} :
    Commit(set_penWidth(Begin(State, "pen_width", NoPoint), value))

CursorEnter ==
  /\ ~canvas.show_cursor
  /\ Commit(enterEvent(Begin(State, "enter", NoPoint)))

CursorLeave ==
  /\ canvas.show_cursor
  /\ Commit(leaveEvent(Begin(State, "leave", NoPoint)))

ToolClicked ==
  \E tool \in {"brush", "marker"} :
    /\ drawing_tools.enabled
    /\ Commit(drawing_tools_on_tool_changed(Begin(State, "tool_" \o tool, NoPoint), tool))

ClearClicked ==
  /\ drawing_tools.enabled
  /\ Commit(on_clear_clicked(Begin(State, "clear", NoPoint)))

ThresholdClicked ==
  /\ drawing_tools.enabled
  /\ \E threshold_value \in ThresholdValues :
       Commit(on_threshold_clicked(Begin(State, "threshold", NoPoint),
                                   threshold_value))

AutoSamToggled(envs) ==
  /\ drawing_tools.enabled
  /\ \E env \in IF drawing_tools.auto_sam THEN {EnvNone} ELSE envs :
       Commit(drawing_tools_on_auto_sam_toggled(
                Begin(State, "auto_sam", NoPoint), ~drawing_tools.auto_sam, env))

\* the user checks or unchecks the folder in the enabled list
FolderChecked(indices, envs) ==
  \E r \in indices, env \in EnvLoad(envs) :
    LET s == Begin(State, "folders", NoPoint)
        s1 == IF folder_manager.current_mode = "unlabelled"
              THEN [s EXCEPT !.folder_manager.unlabelled_checked = ~@]
              ELSE [s EXCEPT !.folder_manager.labelled_checked = ~@]
    IN Commit(on_folder_selection_changed(s1, r, env))

SourceToggled(indices, envs) ==
  \E r \in indices, env \in EnvLoad(envs) :
    Commit(toggle_image_source(Begin(State, "toggle_source", NoPoint),
                               r, env, r, env))

NextImage(envs) ==
  /\ window.navigation_enabled
  /\ \E env \in EnvLoad(envs) :
       Commit(get_next_image(Begin(State, "next", NoPoint), env))

PreviousImage(envs) ==
  /\ window.navigation_enabled
  /\ \E env \in EnvLoad(envs) :
       Commit(get_previous_image(Begin(State, "previous", NoPoint), env))

RandomImage(indices, envs) ==
  /\ window.navigation_enabled
  /\ \E r \in indices, env \in EnvLoad(envs) :
       Commit(get_random_image(Begin(State, "random", NoPoint), r, env))

SaveMask ==
  /\ window.image_controls_enabled
  /\ \E write_ok \in BOOLEAN :
       Commit(save_mask(Begin(State, "save", NoPoint), write_ok))

SaveAndNext(indices, envs) ==
  /\ window.image_controls_enabled
  /\ \E write_ok \in BOOLEAN, r \in indices, env \in EnvLoad(envs) :
       Commit(save_and_get_next(Begin(State, "save_and_next", NoPoint),
                                write_ok, r, env))

(***************************************************************************)
(* Spec: the Marker and Brush tools and the oracle on one image.           *)
(***************************************************************************)
Next ==
  \/ FolderChecked(FirstIndex, {EnvNone})
  \/ ToolClicked
  \/ ClearClicked
  \/ MousePress(LeftPoints, {"left"}, {"marker"}, EnvPredict)
  \/ MousePress(RightPoints, {"right"}, {"marker"}, EnvPredict)
  \/ MousePress(BrushPoints, {"left"}, {"brush"}, {EnvNone})
  \/ MouseMove(MovePoints)
  \/ MouseRelease

Spec == Init /\ [][Next]_vars

(***************************************************************************)
(* SpecNav: navigation between images, Auto SAM and markers.               *)
(***************************************************************************)
NextNav ==
  \/ FolderChecked(FirstIndex, EnvAutoFew)
  \/ SourceToggled(FirstIndex, EnvAutoFew)
  \/ NextImage(EnvAutoFew)
  \/ PreviousImage(EnvAutoFew)
  \/ RandomImage(PoolIndex, EnvAutoFew)
  \/ AutoSamToggled(EnvAutoFew)
  \/ ToolClicked
  \/ MousePress(NavPoints, {"left", "right"}, {"marker"}, {EnvNone})
  \/ MouseRelease

SpecNav == Init /\ [][NextNav]_vars

(***************************************************************************)
(* SpecView: the view operations (wheel zoom, middle-button pan, resize)   *)
(* and image loads, with the Brush tool.                                   *)
(***************************************************************************)
NextView ==
  \/ Wheel(ViewPoints)
  \/ Resize
  \/ MousePress(ViewPoints, {"middle"}, {"brush"}, {EnvNone})
  \/ MouseMove(ViewPoints)
  \/ MouseRelease
  \/ FolderChecked(PoolIndex, {EnvNone})
  \/ NextImage({EnvNone})

SpecView == Init /\ [][NextView]_vars

(***************************************************************************)
(* SpecMask: the operations on the mask (strokes, clear, threshold) and    *)
(* the markers, over loads of a readable and of an unreadable image.       *)
(***************************************************************************)
SpecMask ==
  Init /\ [][\/ FolderChecked(PoolIndex, {EnvNone})
            \/ NextImage({EnvNone})
            \/ ClearClicked
            \/ ThresholdClicked
            \/ ToolClicked
            \/ MousePress(BrushPoints, {"left", "right"}, {"brush"}, {EnvNone})
            \/ MousePress(NavPoints, {"left"}, {"marker"}, {EnvNone})
            \/ MouseMove(MovePoints)
            \/ MouseRelease]_vars

(***************************************************************************)
(* SpecStroke: drags of the brush with several segments, with a wheel zoom *)
(* or a middle-button pan after the first segment of a paint drag, and     *)
(* tool changes at any time.                                               *)
(***************************************************************************)
\* a paint drag has drawn its first segment and the view is as fitted
MidDrag ==
  canvas.drawing /\ canvas.viewSteps = 0 /\ Len(canvas.mask.strokes) = 1

SpecStroke ==
  Init /\ [][\/ FolderChecked(FirstIndex, {EnvNone})
            \/ ToolClicked
            \/ (buttons = {}
                  /\ MousePress(BrushPoints, {"left", "right"}, {"brush"}, {EnvNone}))
            \/ (MidDrag /\ MousePress({<<300, 260>>}, {"middle"}, {"brush"}, {EnvNone}))
            \/ MouseDrag(MovePoints, MaxDragSegments)
            \/ MouseRelease
            \/ (MidDrag /\ Wheel({<<300, 260>>}))]_vars

(***************************************************************************)
(* SpecThreshold: the threshold button over the images of both sources     *)
(* (16-bit or not, readable or not, with a mask file or not) and saving.   *)
(***************************************************************************)
SpecThreshold ==
  Init /\ [][\/ FolderChecked(PoolIndex, {EnvNone})
            \/ SourceToggled(FirstIndex, {EnvNone})
            \/ NextImage({EnvNone})
            \/ PreviousImage({EnvNone})
            \/ ClearClicked
            \/ ThresholdClicked
            \/ SaveMask]_vars

(***************************************************************************)
(* SpecDisplay: the view and display operations (wheel, pan, resize,       *)
(* opacity, pen width, cursor enter and leave) over an image with markers  *)
(* and an oracle mask.  The sliders, the tool buttons, the window frame    *)
(* and a second mouse button are used while no mouse button is held on     *)
(* the canvas; markers are placed on the fitted image.                     *)
(***************************************************************************)
\* pointer positions of a middle press and of the moves after it
PanStartPoints == {<<300, 260>>}
PanMovePoints == {<<280, 250>>}

SpecDisplay ==
  Init /\ [][\/ (~image_manager.selected /\ FolderChecked(FirstIndex, {EnvNone}))
            \/ (buttons = {} /\ ToolClicked)
            \/ (buttons = {} /\ canvas.viewSteps = 0
                 /\ MousePress(MarkerPoints, {"left"}, {"marker"}, {EnvNone}))
            \/ (buttons = {}
                 /\ MousePress(PanStartPoints, {"middle"}, {"marker"}, {EnvNone}))
            \/ MouseMove(PanMovePoints)
            \/ MouseRelease
            \/ (canvas.viewSteps < MaxViewSteps - 1 /\ Wheel(PanStartPoints))
            \/ (buttons = {} /\ Resize)
            \/ (buttons = {} /\ OpacityChanged)
            \/ (buttons = {} /\ PenWidthChanged)
            \/ CursorEnter
            \/ CursorLeave]_vars

(***************************************************************************)
(* SpecPixels: threshold_image, crop_by_mask, convert_sam_mask_to_qimage,  *)
(* one drawLine and the fill of clearMask applied to small rasters.        *)
(* The program stays as constructed; job holds the input and the result.   *)
(***************************************************************************)
program == <<canvas, window, model_service, image_manager, drawing_tools,
             folder_manager, disk, buttons, trace>>

InitPixels ==
  /\ Program(Begin(preload_sam_model(
                     initialize_application_state(Constructed(InitMaskFiles)),
                     TRUE),
                   "init", NoPoint))
  /\ \/ \E image \in Rasters(SampleValues), threshold \in ThresholdCutoffs :
          job = [op |-> "threshold_input", image |-> image, threshold |-> threshold]
     \/ \E image \in CropImages, mask \in CropMasks :
          job = [op |-> "crop_input", image |-> image, mask |-> mask]
     \/ \E mask \in Rasters(BOOLEAN) :
          job = [op |-> "convert_input", mask |-> mask]
     \/ \E mask \in StrokeMasks, mode \in {"paint", "erase"},
           first \in BOOLEAN, second \in BOOLEAN :
          job = [op |-> "stroke_input", mask |-> mask, mode |-> mode,
                 covered |-> IF Len(mask) = 1 THEN <<<<first, second>>>>
                             ELSE <<<<first>>, <<second>>>>]
     \/ \E image \in Rasters({0, 65535}) :
          job = [op |-> "clear_input", image |-> image]

ThresholdImage ==
  /\ job.op = "threshold_input"
  /\ job' = [op |-> "threshold_image", image |-> job.image,
             threshold |-> job.threshold,
             mask |-> threshold_image(job.image, job.threshold)]
  /\ UNCHANGED program

CropByMask ==
  /\ job.op = "crop_input"
  /\ job' = [op |-> "crop_by_mask", image |-> job.image, mask |-> job.mask,
             cropped_np |-> crop_by_mask(job.image, job.mask)]
  /\ UNCHANGED program

ConvertSamMask ==
  /\ job.op = "convert_input"
  /\ job' = [op |-> "convert_sam_mask_to_qimage", mask |-> job.mask,
             qimage |-> convert_sam_mask_to_qimage(job.mask)]
  /\ UNCHANGED program

DrawLine ==
  /\ job.op = "stroke_input"
  /\ job' = [op |-> "draw_line", before |-> job.mask, mode |-> job.mode,
             covered |-> job.covered,
             mask |-> draw_line(job.mask, job.mode, job.covered)]
  /\ UNCHANGED program

FillTransparent ==
  /\ job.op = "clear_input"
  /\ job' = [op |-> "fill_transparent", image |-> job.image,
             mask |-> fill_transparent(job.image)]
  /\ UNCHANGED program

SpecPixels ==
  InitPixels /\ [][ThresholdImage \/ CropByMask \/ ConvertSamMask \/ DrawLine
                    \/ FillTransparent]_vars

(***************************************************************************)
(* SpecPaths: masks and cropped images are saved for, and looked up for,   *)
(* image paths under the data root and outside it.  job holds the files    *)
(* that exist and what the last operation returned.                        *)
(***************************************************************************)
InitPaths ==
  /\ Program(Begin(preload_sam_model(
                     initialize_application_state(Constructed(InitMaskFiles)),
                     TRUE),
                   "init", NoPoint))
  /\ job = [op |-> "paths", files |-> {}]

PathSaveMask ==
  /\ "files" \in DOMAIN job
  /\ \E image_path \in PathImages, save_ok \in BOOLEAN :
       LET r == path_save_mask(job.files, image_path, save_ok)
       IN job' = [op |-> "save_mask", image_path |-> image_path,
                  files |-> r.files, success |-> r.success]
  /\ UNCHANGED program

PathGetMaskPath ==
  /\ "files" \in DOMAIN job
  /\ \E image_path \in PathImages :
       job' = [op |-> "get_mask_path", image_path |-> image_path,
               files |-> job.files,
               has_mask |-> path_has_mask(job.files, image_path),
               mask_path |-> get_mask_path(job.files, image_path)]
  /\ UNCHANGED program

PathCropImage ==
  /\ "files" \in DOMAIN job
  /\ \E image_path \in PathImages, write_ok \in BOOLEAN :
       /\ path_has_mask(job.files, image_path)
       /\ LET r == path_crop_image_by_mask(job.files, image_path, write_ok)
          IN job' = [op |-> "crop_image_by_mask", image_path |-> image_path,
                     files |-> r.files, success |-> r.success,
                     existed |-> cropped_image_exists(job.files, image_path)]
  /\ UNCHANGED program

SpecPaths ==
  InitPaths /\ [][PathSaveMask \/ PathGetMaskPath \/ PathCropImage]_vars

(***************************************************************************)
(* SpecDetect: generate_auto_mask applied to small rasters.  The detector  *)
(* holds the model service but never uses it, and its signal               *)
(* auto_mask_generated has no subscriber: the program stays as it is.      *)
(***************************************************************************)
InitDetect ==
  /\ Program(Begin(preload_sam_model(
                     initialize_application_state(Constructed(InitMaskFiles)),
                     TRUE),
                   "init", NoPoint))
  /\ \E image \in DetectImages : job = [op |-> "detect_input", image |-> image]

GenerateAutoMask ==
  /\ job.op = "detect_input"
  /\ job' = [op |-> "generate_auto_mask", image |-> job.image,
             binarised_image |-> IF job.image = <<>> THEN <<>>
                                 ELSE binarised_image(job.image),
             centroid_point |-> generate_auto_mask(job.image)]
  /\ UNCHANGED program

SpecDetect == InitDetect /\ [][GenerateAutoMask]_vars

(***************************************************************************)
(* SpecTools: the tools together: tool changes, markers, brush strokes,    *)
(* clear, threshold, saving, Auto SAM and navigation to the next image.    *)
(***************************************************************************)
SpecTools ==
  Init /\ [][\/ FolderChecked(FirstIndex, EnvAutoFew)
            \/ NextImage(EnvAutoFew)
            \/ AutoSamToggled(EnvAutoFew)
            \/ ToolClicked
            \/ ClearClicked
            \/ ThresholdClicked
            \/ MousePress(NavPoints, {"left", "right"}, {"marker"}, {EnvNone})
            \/ MousePress(BrushPoints, {"left"}, {"brush"}, {EnvNone})
            \/ MouseMove(MovePoints)
            \/ MouseRelease]_vars

(***************************************************************************)
(* SpecSave: the operations that change the mask (strokes, erasing, clear, *)
(* threshold, markers) and saving, over loads of images and of the         *)
(* placeholder.  The buttons are clicked while no mouse button is held on  *)
(* the canvas.                                                             *)
(***************************************************************************)
SpecSave ==
  Init /\ [][\/ FolderChecked(FirstIndex, {EnvNone})
            \/ NextImage({EnvNone})
            \/ (buttons = {} /\ ToolClicked)
            \/ (buttons = {} /\ ClearClicked)
            \/ (buttons = {} /\ ThresholdClicked)
            \/ (buttons = {} /\ SaveMask)
            \/ MousePress(NavPoints, {"left"}, {"marker"}, EnvPredict)
            \/ MousePress(BrushPoints, {"left", "right"}, {"brush"}, {EnvNone})
            \/ MouseMove(MovePoints)
            \/ MouseRelease]_vars

(***************************************************************************)
(* SpecBus: callbacks are subscribed to and unsubscribed from two event    *)
(* types and events are published.  job holds the subscriptions and the    *)
(* calls of the last publish.  SpecBusChanging does the same with          *)
(* callbacks that change the subscriptions of the type being published.    *)
(***************************************************************************)
InitBus ==
  /\ Program(Begin(preload_sam_model(
                     initialize_application_state(Constructed(InitMaskFiles)),
                     TRUE),
                   "init", NoPoint))
  /\ job = [op |-> "bus", event_type |-> "none", subscribers |-> NewEventBus,
            calls |-> <<>>]

BusSubscribe(event_types, callbacks) ==
  /\ "subscribers" \in DOMAIN job
  /\ \E event_type \in event_types, callback \in callbacks :
       /\ Len(job.subscribers[event_type]) < MaxSubscribers
       /\ job' = [op |-> "subscribe", event_type |-> event_type,
                  subscribers |-> subscribe(job.subscribers, event_type, callback),
                  calls |-> <<>>]
  /\ UNCHANGED program

BusUnsubscribe(event_types, callbacks) ==
  /\ "subscribers" \in DOMAIN job
  /\ \E event_type \in event_types, callback \in callbacks :
       job' = [op |-> "unsubscribe", event_type |-> event_type,
               subscribers |-> unsubscribe(job.subscribers, event_type, callback),
               calls |-> <<>>]
  /\ UNCHANGED program

BusPublish ==
  /\ "subscribers" \in DOMAIN job
  /\ \E event_type \in EventTypes :
       LET r == publish(job.subscribers, event_type)
       IN /\ Len(r.subscribers[event_type]) <= MaxSubscribers
          /\ job' = [op |-> "publish", event_type |-> event_type,
                     subscribers |-> r.subscribers, calls |-> r.calls]
  /\ UNCHANGED program

SpecBus ==
  InitBus /\ [][\/ BusSubscribe(EventTypes, PlainCallbacks)
                \/ BusUnsubscribe(EventTypes, PlainCallbacks)
                \/ BusPublish]_vars

SpecBusChanging ==
  InitBus /\ [][\/ BusSubscribe({"MASK_CREATED"}, ChangingCallbacks)
                \/ BusUnsubscribe({"MASK_CREATED"}, ChangingCallbacks)
                \/ BusPublish]_vars

(***************************************************************************)
(* SpecBatch: "Crop All Images By Mask" over folders with any mask files   *)
(* and any cropped outputs; the button is enabled while a folder is        *)
(* selected.                                                               *)
(***************************************************************************)
\* what may happen to the crop of an image: "a" is cropped without failure
BatchOutcomes ==
  {[f \in FileSet |-> IF f = "b" THEN ob ELSE IF f = "d" THEN od ELSE "ok"] :
     ob \in {"ok", "mask_unreadable", "raises", "write_fail"},
     od \in {"ok", "mask_unreadable", "raises", "write_fail"}}

InitBatch ==
  \E mask_files \in SUBSET FileSet, existing \in SUBSET {"a", "b"},
     overwrite \in BOOLEAN, outcome \in BatchOutcomes :
    /\ Program(Begin(preload_sam_model(
                       initialize_application_state(Constructed(mask_files)),
                       TRUE),
                     "init", NoPoint))
    /\ job = [op |-> "batch_input", existing |-> existing,
              overwrite |-> overwrite, outcome |-> outcome]

\* MainWindow.crop_all_images with the overwrite box of the dialog
CropAllClicked ==
  /\ job.op = "batch_input"
  /\ image_manager.selected
  /\ job' = [job EXCEPT !.op = "crop_all_images"]
              @@ [result |-> crop_all_images_by_masks(State, job.existing,
                                                      job.overwrite, job.outcome)]
  /\ UNCHANGED program

SpecBatch == InitBatch /\ [][FolderChecked(FirstIndex, {EnvNone}) \/ CropAllClicked]_vars

(***************************************************************************)
(* Properties.  A property of one handler step is stated either on the     *)
(* state the handler leaves, with the trace it wrote, or as an action      *)
(* property over the states before and after it.                           *)
(***************************************************************************)
HasEvent(tr, event_type) == \E i \in DOMAIN tr.events : tr.events[i] = event_type

\* no marker lies at Euclidean distance <= threshold from p
NoneWithin(markers, p, threshold) ==
  \A i \in DOMAIN markers : Dist2(markers[i], p) > threshold * threshold

\* how far, on each axis, the image point under the cursor of a wheel step
\* is from the image point that was under it before the step
CursorShift(c, tr) ==
  LET after == convert_to_image_coords(c, tr.pos)
  IN <<Abs(after[1] - tr.before[1]), Abs(after[2] - tr.before[2])>>

\* the mask that is nothing but the oracle's answer for the points on img
OracleAnswer(img, points) == MaskOf("oracle", ImageSize(img), img, points)

AllSetupsOk(tr) == \A i \in DOMAIN tr.setups : tr.setups[i].ok

\* C1: after any sequence of image loads, resizes and wheel zooms (in or
\* out), scale_factor is never below min_scale_factor.
C1_ScaleNotBelowMin ==
  ~RatLess(canvas.scale_factor, canvas.min_scale_factor)

\* a wheel step on a loaded image that the clamp stopped at min_scale_factor
C1_Witness ==
  /\ trace.op = "wheel" /\ trace.zoomed
  /\ canvas.image \in FileSet
  /\ canvas.scale_factor = canvas.min_scale_factor

\* C2 as stated: after every wheel step on an image, the image point under
\* the cursor differs from the one before the step by at most 1 pixel on
\* each axis, the final pan clamp included.
C2_AnchorWithinOnePixel ==
  (trace.op = "wheel" /\ trace.zoomed /\ canvas.image \in FileSet) =>
     /\ CursorShift(canvas, trace)[1] <= 1
     /\ CursorShift(canvas, trace)[2] <= 1

\* C2, amended: after a wheel step whose final pan clamp leaves the pan
\* offset as the anchoring set it, the image point under the cursor differs
\* from the one before the step by at most ceil(1 / scale_factor) pixels on
\* each axis (1 pixel when scale_factor >= 1).
C2_AnchorWhenPanNotClamped ==
  (trace.op = "wheel" /\ trace.zoomed /\ canvas.image \in FileSet
     /\ ~trace.clamped) =>
     LET bound == CeilDiv(canvas.scale_factor[2], canvas.scale_factor[1])
     IN /\ CursorShift(canvas, trace)[1] <= bound
        /\ CursorShift(canvas, trace)[2] <= bound

\* a wheel step off the centre of an image larger than the canvas on both
\* axes, which the pan clamp leaves alone and whose rounding shifts the point
C2_Witness ==
  /\ trace.op = "wheel" /\ trace.zoomed /\ ~trace.clamped
  /\ canvas.image \in FileSet
  /\ canvas.scaled_image[1] > canvas.width
  /\ canvas.scaled_image[2] > canvas.height
  /\ CursorShift(canvas, trace) # <<0, 0>>

\* a right press with the Marker tool at pos finds the markers in one of
\* two cases
RightPressInMarkerMode == trace'.op = "press_right" /\ canvas.current_tool = "marker"
PressedImagePoint == convert_to_image_coords(canvas, trace'.pos)

\* C3: if no marker lies at Euclidean distance <= threshold from the
\* position (the empty list included), removeNearest leaves the marker list
\* unchanged, publishes no marker-removed event, issues no oracle call and
\* does not change the mask.
C3_NoMarkerInRange ==
  [][(RightPressInMarkerMode
        /\ NoneWithin(canvas.sam_markers, PressedImagePoint, DefaultThreshold))
     => /\ canvas'.sam_markers = canvas.sam_markers
        /\ ~HasEvent(trace', "SAM_MARKER_REMOVED")
        /\ trace'.calls = <<>> /\ trace'.setups = <<>>
        /\ canvas'.mask = canvas.mask]_vars

\* a right press 21 pixels from the only marker, with an oracle mask stored
C3_Witness ==
  /\ trace.op = "press_right" /\ canvas.current_tool = "marker"
  /\ canvas.sam_markers # <<>>
  /\ NoneWithin(canvas.sam_markers, convert_to_image_coords(canvas, trace.pos),
                DefaultThreshold)
  /\ canvas.mask.kind = "oracle"
  /\ trace.removed = 0

\* k is the index of a marker of minimum distance to p, the earliest of them
IsEarliestNearest(markers, p, k) ==
  /\ k \in DOMAIN markers
  /\ \A i \in DOMAIN markers :
       /\ Dist2(markers[k], p) <= Dist2(markers[i], p)
       /\ i < k => Dist2(markers[i], p) > Dist2(markers[k], p)

\* the list without its k-th element, the others in their order
Without(markers, k) ==
  SubSeq(markers, 1, k - 1) \o SubSeq(markers, k + 1, Len(markers))

C5_RemovalRegenerates ==
  trace.removed > 0 =>
    IF canvas.sam_markers # <<>>
    THEN \E i \in DOMAIN trace.calls : trace.calls[i].pts = canvas.sam_markers
    ELSE canvas.mask.kind \in {"transparent", "null"} /\ canvas.mask.strokes = <<>>

\* a left press with the Marker tool while an image path is current
LeftPressInMarkerMode ==
  /\ trace'.op = "press_left" /\ canvas.current_tool = "marker"
  /\ image_manager.current_image_path # ""

\* the press appends the pressed image point, every oracle call carries the
\* whole new list, and a call that succeeds leaves the oracle's answer as the
\* mask, with nothing of the mask before
AppendsAndPassesAll ==
  /\ canvas'.sam_markers = Append(canvas.sam_markers, PressedImagePoint)
  /\ \A i \in DOMAIN trace'.calls :
       /\ trace'.calls[i].pts = canvas'.sam_markers
       /\ trace'.calls[i].ok =>
            canvas'.mask = OracleAnswer(image_manager.current_image_path,
                                        canvas'.sam_markers)

\* C6 as stated: a left click in Marker mode with an image loaded appends
\* the clicked image point at the end of the marker list and triggers exactly
\* one oracle request, whose point set is the entire marker list with the
\* new point, in insertion order; on success the mask is the oracle result.
C6_ClickRequestsExactlyOnce ==
  [][LeftPressInMarkerMode
     => AppendsAndPassesAll /\ Len(trace'.calls) = 1]_vars

\* C6, amended: the click appends the point and triggers at most one oracle
\* request: exactly one when the predictor is set up for the image or its
\* set-up succeeds, none when the set-up fails (the mask is then unchanged);
\* the request carries the entire marker list with the new point, in
\* insertion order, and on success the mask is the oracle result alone.
C6_ClickRequestsOnceIfSetUp ==
  [][LeftPressInMarkerMode
     => /\ AppendsAndPassesAll
        /\ Len(trace'.calls) = (IF AllSetupsOk(trace') THEN 1 ELSE 0)
        /\ Len(trace'.setups) <= 1
        /\ ~AllSetupsOk(trace') => canvas'.mask = canvas.mask]_vars

\* a second left press, whose request carried both markers and succeeded
C6_Witness ==
  /\ trace.op = "press_left" /\ canvas.current_tool = "marker"
  /\ image_manager.current_image_path # ""
  /\ Len(canvas.sam_markers) = 2
  /\ Len(trace.calls) = 1 /\ trace.calls[1].ok
  /\ trace.calls[1].pts = canvas.sam_markers
  /\ canvas.mask = OracleAnswer(image_manager.current_image_path, canvas.sam_markers)

\* C7 as stated: every call to the oracle (from marker add, marker removal,
\* auto region detection on image load or on toggling Auto SAM) passes a
\* point set equal to the full current marker list.
C7_EveryCallPassesMarkers ==
  \A i \in DOMAIN trace.calls : trace.calls[i].pts = canvas.sam_markers

\* C7, amended: the calls made on a marker add or removal pass the full
\* current marker list; the calls made for auto region detection (on image
\* load or on toggling Auto SAM) pass only the detected centroid, which is
\* not put in the marker list.
C7_CallsPassMarkersOrCentroid ==
  \A i \in DOMAIN trace.calls :
    IF trace.op \in {"press_left", "press_right"}
    THEN trace.calls[i].pts = canvas.sam_markers
    ELSE \E j \in DOMAIN trace.detected :
           trace.calls[i].pts = <<trace.detected[j]>>

\* Auto SAM is toggled on while a marker is placed: the call passes the
\* centroid alone
C7_Witness ==
  /\ trace.op = "auto_sam" /\ Len(trace.calls) = 1
  /\ canvas.sam_markers # <<>>
  /\ trace.calls[1].pts # canvas.sam_markers

\* C8: after every load of a new image by next, previous or random (whether
\* or not the new image has a mask file, whatever tool is active) the marker
\* list is empty.
C8_LoadEmptiesMarkers ==
  [][(/\ trace'.op \in {"next", "previous", "random"}
      /\ trace'.loaded # "none"
      /\ trace'.loaded # image_manager.current_image_path)
     => canvas'.sam_markers = <<>>]_vars

\* C9: selecting a tool other than Marker while Marker is active empties the
\* marker list, and this clearing, like the clearing on an explicit mask
\* clear, issues no oracle call and publishes no marker-removed event;
\* selecting Marker again while Marker is active keeps the markers.
C9_ToolSwitchClearsSilently ==
  [][/\ (trace'.op = "tool_brush" /\ canvas.current_tool = "marker")
          => /\ canvas'.sam_markers = <<>>
             /\ canvas'.current_tool = "brush"
             /\ trace'.calls = <<>> /\ trace'.setups = <<>>
             /\ ~HasEvent(trace', "SAM_MARKER_REMOVED")
     /\ trace'.op = "clear"
          => /\ canvas'.sam_markers = <<>>
             /\ trace'.calls = <<>> /\ trace'.setups = <<>>
             /\ ~HasEvent(trace', "SAM_MARKER_REMOVED")
     /\ (trace'.op = "tool_marker" /\ canvas.current_tool = "marker")
          => canvas'.sam_markers = canvas.sam_markers]_vars

\* the Brush tool is selected while two markers are placed
C9_Witness ==
  /\ trace.op = "tool_brush" /\ trace.cleared = 2
  /\ canvas.sam_markers = <<>>
  /\ trace.calls = <<>>

\* C10: when the oracle fails or is unavailable (the predictor cannot be set
\* up, or the prediction returns no mask) the stored mask is exactly what it
\* was before the request, and the saved state of the mask is not changed by
\* the failed request.
C10_FailureKeepsMask ==
  trace.failed # <<>> =>
    /\ canvas.mask = trace.failed[1].mask
    /\ window.mask_is_saved = trace.failed[1].saved

\* a request fails while an unsaved oracle mask is stored
C10_Witness ==
  /\ trace.failed # <<>>
  /\ trace.failed[1].mask.kind = "oracle"
  /\ ~trace.failed[1].saved
  /\ trace.op = "press_left"

\* the width and height of a mask
MaskSize(mask) == <<mask.w, mask.h>>

\* C11: set_mask (replace) rejects a mask whose width or height differs
\* from the current image's: after such a call the stored mask is the one
\* stored before the call.
C11_SetMaskRejectsMismatch ==
  \A i \in DOMAIN trace.replaced :
    MaskSize(trace.replaced[i].given) # ImageSize(trace.replaced[i].image)
      => canvas.mask = trace.replaced[i].before

\* C12: whenever image and mask are both non-empty, the mask's width and
\* height equal the image's.
C12_MaskSizeIsImageSize ==
  (canvas.image # "null" /\ canvas.mask.kind # "null")
    => MaskSize(canvas.mask) = ImageSize(canvas.image)

\* C13: when the raster of a navigation step cannot be read, the load is
\* aborted and the canvas keeps the image, the mask, the markers and the
\* saved flag it had before the attempt.
C13_FailedLoadKeepsState ==
  [][(/\ trace'.op \in {"next", "previous", "random"}
      /\ trace'.loaded \in FileSet
      /\ ~FileInfo[trace'.loaded].readable)
     => /\ canvas'.image = canvas.image
        /\ canvas'.mask = canvas.mask
        /\ canvas'.sam_markers = canvas.sam_markers
        /\ window'.mask_is_saved = window.mask_is_saved]_vars

\* C14: when threshold generation fails because the source cannot be read
\* or is not 16-bit, the stored mask is unchanged, no mask_changed signal
\* is emitted and the saved flag is not turned to unsaved.
C14_ThresholdFailureKeepsMask ==
  [][(/\ trace'.op = "threshold"
      /\ image_manager.current_image_path \in FileSet
      /\ \/ ~FileInfo[image_manager.current_image_path].readable
         \/ FileInfo[image_manager.current_image_path].bits # 16)
     => /\ canvas'.mask = canvas.mask
        /\ trace'.signals = 0
        /\ window'.mask_is_saved = window.mask_is_saved
        /\ window'.current_mask_modified = window.current_mask_modified]_vars

\* the threshold button is pressed on an 8-bit image whose saved mask file
\* is shown
C14_Witness ==
  /\ trace.op = "threshold" /\ trace.raised
  /\ image_manager.current_image_path \in FileSet
  /\ FileInfo[image_manager.current_image_path].bits = 8
  /\ canvas.mask.kind = "file"
  /\ window.mask_is_saved

\* the size <<width, height>> of a raster
RasterSize(rows) == IF rows = <<>> THEN <<0, 0>> ELSE <<Len(rows[1]), Len(rows)>>

\* C15: for every 16-bit sample s and threshold t in 0..255 the threshold
\* mask pixel is foreground (alpha 255, one fixed colour) exactly when
\* round(s * 255 / 65535) <= t, and fully transparent (alpha 0) exactly when
\* it is > t; an all-zero image gives an entirely foreground mask for any t;
\* the output has the width and height of the input.
C15_ThresholdPixels ==
  job.op = "threshold_image" =>
    /\ RasterSize(job.mask) = RasterSize(job.image)
    /\ \A y \in DOMAIN job.image : \A x \in DOMAIN job.image[y] :
         LET s == job.image[y][x]
             rescaled == (2 * s * 255 + 65535) \div (2 * 65535)
         IN /\ rescaled <= job.threshold <=> job.mask[y][x] = <<255, 0, 0, 255>>
            /\ rescaled > job.threshold <=> job.mask[y][x][4] = 0
            /\ s = 0 => job.mask[y][x][4] = 255

\* the sample 32768, rescaled to 128, is cut off at 127 next to the sample
\* 32767, rescaled to 127, which is not
C15_Witness ==
  /\ job.op = "threshold_image" /\ job.threshold = 127
  /\ job.image = <<<<32767, 32768>>>>
  /\ job.mask = <<<<(<<255, 0, 0, 255>>), (<<0, 0, 0, 0>>)>>>>

\* the colour <<r, g, b>> of a pixel at 16 bits a channel: of a source pixel
\* in its format, and of a pixel <<b, g, r>> of the cropped array
SourceColour(format, pixel) ==
  IF format = "rgb8" THEN <<257 * pixel[1], 257 * pixel[2], 257 * pixel[3]>>
  ELSE IF format = "gray8" THEN <<257 * pixel, 257 * pixel, 257 * pixel>>
  ELSE <<pixel, pixel, pixel>>
CroppedColour(bgr) == <<257 * bgr[3], 257 * bgr[2], 257 * bgr[1]>>

\* C16: in the result of cropSingle every pixel whose mask alpha is > 0
\* equals the source image pixel and every pixel whose mask alpha is 0 is
\* pure white; the result has the image's dimensions, and the image and the
\* mask are as they were.
C16_CropKeepsMaskedPixels ==
  [][(/\ job'.op = "crop_by_mask"
      /\ job.image.rows # <<>>
      /\ RasterSize(job.mask) = RasterSize(job.image.rows))
     => /\ job'.image = job.image /\ job'.mask = job.mask
        /\ RasterSize(job'.cropped_np) = RasterSize(job.image.rows)
        /\ \A y \in DOMAIN job.mask : \A x \in DOMAIN job.mask[y] :
             IF job.mask[y][x] = 0
             THEN job'.cropped_np[y][x] = <<255, 255, 255>>
             ELSE CroppedColour(job'.cropped_np[y][x])
                    = SourceColour(job.image.format, job.image.rows[y][x])]_vars

\* the elements of a sequence
Range(seq) == {seq[i] : i \in DOMAIN seq}

\* the batch reaches the image f and does not skip it
BatchCrops(f) ==
  f \in disk.mask_files /\ (job.overwrite \/ f \notin job.existing)
\* reading, masking or writing f fails
BatchFails(f) == ~FileInfo[f].readable \/ job.outcome[f] # "ok"

\* C17: cropBatch with overwrite = false never writes an output for an
\* image whose cropped output exists, writes one for every other image that
\* has a mask (and whose crop does not fail), and never for an image without
\* a mask; the count it reports is the number of outputs written; with
\* overwrite = true every image that has a mask is rewritten.
C17_BatchSkipsExisting ==
  job.op = "crop_all_images" =>
    LET written == job.result.written
    IN /\ ~job.overwrite => Range(written) \cap job.existing = {}
       /\ Range(written) \subseteq disk.mask_files
       /\ \A f \in FileSet :
            (BatchCrops(f) /\ ~BatchFails(f)) => f \in Range(written)
       /\ job.result.total_cropped = Len(written)
       /\ Cardinality(Range(written)) = Len(written)

\* a and b have masks, the output of a exists and that of b does not: only
\* b is written and the count is 1
C17_Witness ==
  /\ job.op = "crop_all_images" /\ ~job.overwrite
  /\ disk.mask_files = {"a", "b"} /\ job.existing = {"a"}
  /\ job.result.written = <<"b">>
  /\ job.result.total_cropped = 1

\* C18: a failure on one item of cropBatch (unreadable image or mask, write
\* failure, exception) does not abort the batch: every later item is still
\* processed, and the failed item is not counted as written.
C18_BatchSurvivesFailure ==
  job.op = "crop_all_images" =>
    /\ \A f \in FileSet : BatchCrops(f) => f \in Range(job.result.tried)
    /\ \A f \in FileSet : BatchFails(f) => f \notin Range(job.result.written)
    /\ job.result.total_cropped
         = Cardinality({f \in FileSet : BatchCrops(f) /\ ~BatchFails(f)})

\* the masking of b raises and the image c cannot be read; d, after both,
\* is written
C18_Witness ==
  /\ job.op = "crop_all_images"
  /\ job.outcome["b"] = "raises"
  /\ job.result.tried = <<"b", "c", "d">>
  /\ job.result.written = <<"d">>
  /\ job.result.total_cropped = 1

\* C19: after clear() (the Clear Mask button, or clearMask on a load without
\* mask file and on the placeholder) the mask is fully transparent with
\* exactly the current image's dimensions, or the empty raster if no image
\* is loaded, and the marker list is empty.
C19_ClearGivesTransparentMask ==
  [][(\/ trace'.op = "clear"
      \/ trace'.loaded \in FileSet \ disk.mask_files
      \/ canvas'.image = "placeholder" /\ trace'.op = "folders")
     => /\ canvas'.mask = IF canvas'.image # "null"
                          THEN TransparentMask(ImageSize(canvas'.image))
                          ELSE NullMask
        /\ canvas'.sam_markers = <<>>]_vars

\* the Clear Mask button is pressed while image a is shown with a marker
C19_Witness ==
  /\ trace.op = "clear" /\ trace.cleared > 0
  /\ canvas.image = "a"
  /\ canvas.mask = TransparentMask(<<800, 600>>)
  /\ canvas.sam_markers = <<>>

\* the pixel p lies in the capsule of the stroke: within penWidth / 2 of the
\* segment from its first to its last point
InCapsule(p, stroke) ==
  LET d == <<stroke.to[1] - stroke.from[1], stroke.to[2] - stroke.from[2]>>
      q == <<p[1] - stroke.from[1], p[2] - stroke.from[2]>>
      len2 == d[1] * d[1] + d[2] * d[2]
      along == q[1] * d[1] + q[2] * d[2]
      cross == q[1] * d[2] - q[2] * d[1]
      w2 == stroke.penWidth * stroke.penWidth
  IN IF len2 = 0 \/ along <= 0 THEN 4 * Dist2(p, stroke.from) <= w2
     ELSE IF along >= len2 THEN 4 * Dist2(p, stroke.to) <= w2
     ELSE 4 * cross * cross <= w2 * len2

\* what the strokes 1..i leave at the pixel p: "paint" (the pen colour at
\* alpha 255), "erase" (alpha 0), or "base" (the pixel of the mask under
\* the strokes)
RECURSIVE StrokedPixel(_, _, _)
StrokedPixel(strokes, i, p) ==
  IF i = 0 THEN "base"
  ELSE IF InCapsule(p, strokes[i]) THEN strokes[i].mode
  ELSE StrokedPixel(strokes, i - 1, p)

\* pixels at both sides of the border of the capsule of radius 12.5 around
\* the segment from (10, 10) to (20, 10)
ProbePixels ==
  {<<15, 10>>, <<15, 22>>, <<15, 23>>, <<32, 10>>, <<33, 10>>, <<28, 19>>,
   <<29, 19>>, <<0, 0>>, <<-3, 10>>}

\* C20: a paint stroke segment makes every mask pixel inside the segment's
\* capsule (radius penWidth / 2) foreground at full alpha, an erase segment
\* makes every pixel inside the capsule alpha 0 whatever the opacity
\* setting, pixels outside the capsule are unchanged, and each segment
\* emits the mask_changed signal.
C20_StrokePaintsCapsule ==
  [][(trace'.op = "move" /\ DrawsSegment)
     => LET mode == IF "left" \in buttons /\ canvas.drawing
                    THEN "paint" ELSE "erase"
            segment == Stroke(mode, canvas.lastPoint,
                              convert_to_image_coords(canvas, trace'.pos),
                              canvas.penWidth)
            before == canvas.mask.strokes
            after == canvas'.mask.strokes
        IN /\ after = Append(before, segment)
           /\ canvas'.mask = [canvas.mask EXCEPT !.strokes = after]
           /\ \A p \in ProbePixels :
                IF InCapsule(p, segment)
                THEN StrokedPixel(after, Len(after), p) = mode
                ELSE StrokedPixel(after, Len(after), p)
                       = StrokedPixel(before, Len(before), p)
           /\ trace'.signals = 1
           /\ ~window'.mask_is_saved]_vars

\* an erase segment from (10, 10) to (20, 10) over a threshold mask
C20_Witness ==
  /\ trace.op = "move" /\ trace.signals = 1
  /\ canvas.mask.kind = "threshold"
  /\ canvas.mask.strokes = <<Stroke("erase", <<10, 10>>, <<20, 10>>, 25)>>
  /\ StrokedPixel(canvas.mask.strokes, 1, <<15, 22>>) = "erase"
  /\ StrokedPixel(canvas.mask.strokes, 1, <<15, 23>>) = "base"

\* the step is a view or display operation: wheel zoom, middle-button pan
\* (press, move, release), resize, opacity or pen-width change, cursor
\* enter or leave
ViewOrDisplayStep ==
  \/ trace'.op \in {"wheel", "resize", "opacity", "pen_width", "enter", "leave",
                    "press_middle", "release_middle"}
  \/ trace'.op = "move" /\ ~DrawsSegment

\* how far, on each axis, the image point p is from the image point of the
\* screen point it is drawn at
RoundTripShift(c, p) ==
  LET screen == <<to_widget_coord(c, p[1], c.panOffset[1]),
                  to_widget_coord(c, p[2], c.panOffset[2])>>
      back == convert_to_image_coords(c, screen)
  IN <<Abs(back[1] - p[1]), Abs(back[2] - p[2])>>

\* C21 as stated: view and display operations never change the stored
\* mask, the image or the marker list, and converting a stored marker to
\* screen and back after any such operation yields the same marker within
\* 1 pixel.
C21_ViewKeepsMarkersWithinOne ==
  [][ViewOrDisplayStep
     => /\ canvas'.mask = canvas.mask
        /\ canvas'.image = canvas.image
        /\ canvas'.sam_markers = canvas.sam_markers
        /\ \A i \in DOMAIN canvas'.sam_markers :
             /\ RoundTripShift(canvas', canvas'.sam_markers[i])[1] <= 1
             /\ RoundTripShift(canvas', canvas'.sam_markers[i])[2] <= 1]_vars

\* C21, amended: view and display operations never change the stored mask,
\* the image or the marker list, and converting a stored marker to screen
\* and back after any such operation yields the same marker within
\* ceil(1 / scale_factor) pixels on each axis.
C21_ViewKeepsMarkers ==
  [][ViewOrDisplayStep
     => LET bound == CeilDiv(canvas'.scale_factor[2], canvas'.scale_factor[1])
        IN /\ canvas'.mask = canvas.mask
           /\ canvas'.image = canvas.image
           /\ canvas'.sam_markers = canvas.sam_markers
           /\ \A i \in DOMAIN canvas'.sam_markers :
                /\ RoundTripShift(canvas', canvas'.sam_markers[i])[1] <= bound
                /\ RoundTripShift(canvas', canvas'.sam_markers[i])[2] <= bound]_vars

\* a wheel zoom over an image with a marker and the oracle's mask, after
\* which the marker's screen point converts back to another image point
C21_Witness ==
  /\ trace.op = "wheel" /\ trace.zoomed
  /\ canvas.sam_markers # <<>>
  /\ canvas.mask.kind = "oracle"
  /\ RoundTripShift(canvas, canvas.sam_markers[1]) # <<0, 0>>

\* toScreen and toImage on one axis (1: x, 2: y) in the view state c
ToScreen(c, axis, v) == to_widget_coord(c, v, c.panOffset[axis])
ToImage(c, axis, v) ==
  convert_to_image_coords(c, <<v, v>>)[axis]

\* the image coordinates and the screen coordinates the round trips are
\* tried on
ProbeImageCoords == 0..40
ProbeScreenCoords == 0..80

\* C22 as stated: for every image point p and every reachable view state,
\* toImage(toScreen(p)) = p, and for every screen point s,
\* toScreen(toImage(s)) differs from s by at most 1 pixel on each axis.
C22_RoundTripExact ==
  canvas.image \in FileSet =>
    \A axis \in {1, 2} :
      /\ \A v \in ProbeImageCoords :
           ToImage(canvas, axis, ToScreen(canvas, axis, v)) = v
      /\ \A v \in ProbeScreenCoords :
           Abs(ToScreen(canvas, axis, ToImage(canvas, axis, v)) - v) <= 1

\* C22, amended: for every image point p and every reachable view state,
\* toImage(toScreen(p)) differs from p by at most ceil(1 / scale_factor)
\* pixels on each axis, and for every screen point s, toScreen(toImage(s))
\* differs from s by at most ceil(scale_factor) pixels on each axis.
C22_RoundTripWithinScale ==
  canvas.image \in FileSet =>
    \A axis \in {1, 2} :
      /\ \A v \in ProbeImageCoords :
           Abs(ToImage(canvas, axis, ToScreen(canvas, axis, v)) - v)
             <= CeilDiv(canvas.scale_factor[2], canvas.scale_factor[1])
      /\ \A v \in ProbeScreenCoords :
           Abs(ToScreen(canvas, axis, ToImage(canvas, axis, v)) - v)
             <= CeilDiv(canvas.scale_factor[1], canvas.scale_factor[2])

\* a view state after a wheel zoom in which an image point comes back 2
\* pixels off
C22_Witness ==
  /\ trace.op = "wheel" /\ trace.zoomed
  /\ canvas.image \in FileSet
  /\ \E v \in ProbeImageCoords :
       v - ToImage(canvas, 1, ToScreen(canvas, 1, v)) = 2

C24_OracleCallsBlockInput ==
  /\ \A i \in DOMAIN trace.setups :
       trace.setups[i].progress /\ ~trace.setups[i].tools_enabled
  /\ \A i \in DOMAIN trace.calls :
       trace.calls[i].progress /\ ~trace.calls[i].tools_enabled
  /\ (trace.setups # <<>> \/ trace.calls # <<>>)
       => ~window.progress_bar /\ drawing_tools.enabled

\* the alpha byte of a mask pixel <<.., .., .., a>>
Alpha(pixel) == pixel[4]

\* C25: every mask pixel produced by a producer (brush stroke, erase,
\* clear, threshold, oracle-derived conversion) has alpha 0 exactly where
\* the pixel is background and alpha 255 exactly where it is foreground;
\* for oracle results a pixel is foreground iff the oracle mask marks it.
C25_AlphaEncodesForeground ==
  /\ job.op = "threshold_image" =>
       \A y \in DOMAIN job.mask : \A x \in DOMAIN job.mask[y] :
         Alpha(job.mask[y][x]) =
           IF RoundDiv(job.image[y][x] * 255, 65535) <= job.threshold
           THEN 255 ELSE 0
  /\ job.op = "convert_sam_mask_to_qimage" =>
       /\ RasterSize(job.qimage) = RasterSize(job.mask)
       /\ \A y \in DOMAIN job.qimage : \A x \in DOMAIN job.qimage[y] :
            Alpha(job.qimage[y][x]) = IF job.mask[y][x] THEN 255 ELSE 0
  /\ job.op = "draw_line" =>
       \A y \in DOMAIN job.mask : \A x \in DOMAIN job.mask[y] :
         IF job.covered[y][x]
         THEN Alpha(job.mask[y][x]) = IF job.mode = "paint" THEN 255 ELSE 0
         ELSE job.mask[y][x] = job.before[y][x]
  /\ job.op = "fill_transparent" =>
       \A y \in DOMAIN job.mask : \A x \in DOMAIN job.mask[y] :
         Alpha(job.mask[y][x]) = 0

\* the conversion of an oracle mask that marks one pixel of two
C25_Witness ==
  /\ job.op = "convert_sam_mask_to_qimage"
  /\ job.mask = <<<<TRUE, FALSE>>>>
  /\ Alpha(job.qimage[1][1]) = 255
  /\ Alpha(job.qimage[1][2]) = 0

\* the pan offset is clamped on one axis: where the scaled image is at least
\* as large as the canvas it shows no empty canvas, where it is smaller it is
\* centred (to the pixel: the slack is split into halves that differ by at
\* most one)
PanClamped(offset, widget, scaled) ==
  IF scaled >= widget
  THEN widget - scaled <= offset /\ offset <= 0
  ELSE Abs(2 * offset - (widget - scaled)) <= 1

\* C26: after any pan, zoom or resize, pan_offset is clamped: along each
\* axis where the scaled image is at least as large as the canvas,
\* canvas_size - scaled_size <= pan_offset <= 0, and along each axis where
\* the scaled image is smaller than the canvas the image stays at its
\* centred position.
C26_PanOffsetClamped ==
  (trace.op \in {"wheel", "move", "resize"} /\ canvas.scaled_image # <<0, 0>>)
    => /\ PanClamped(canvas.panOffset[1], canvas.width, canvas.scaled_image[1])
       /\ PanClamped(canvas.panOffset[2], canvas.height, canvas.scaled_image[2])

\* the path is under the data root
UnderDataRoot(path) ==
  Len(path) > Len(data_path) /\ \A i \in DOMAIN data_path : path[i] = data_path[i]

\* root joined with the path's components after the data root
Rebased(root, path) ==
  [i \in 1..(Len(root) + Len(path) - Len(data_path)) |->
     IF i <= Len(root) THEN root[i] ELSE path[i - Len(root) + Len(data_path)]]

\* C27: the mask path (and likewise the cropped-output path) of an image
\* under the data root is the labels root (cropped root) joined with the
\* image's path relative to the data root, file name and extension
\* unchanged; the mapping is injective; save_mask writes to exactly the
\* path has_mask and get_mask_path examine; and for an image not under the
\* data root has_mask is false, get_mask_path is None and save_mask fails
\* without writing.
C27_MaskPathMirrorsImagePath ==
  [][/\ job'.op = "save_mask" =>
         IF UnderDataRoot(job'.image_path) /\ job'.success
         THEN /\ job'.files = job.files \cup {Rebased(labels_path, job'.image_path)}
              /\ path_has_mask(job'.files, job'.image_path)
              /\ get_mask_path(job'.files, job'.image_path)
                   = Rebased(labels_path, job'.image_path)
              /\ \A other \in PathImages \ {job'.image_path} :
                   path_has_mask(job'.files, other) = path_has_mask(job.files, other)
         ELSE job'.files = job.files /\ ~job'.success
     /\ (job'.op = "save_mask" /\ ~UnderDataRoot(job'.image_path)) => ~job'.success
     /\ job'.op = "get_mask_path" =>
         IF UnderDataRoot(job'.image_path)
         THEN /\ job'.has_mask = (Rebased(labels_path, job'.image_path) \in job.files)
              /\ job'.mask_path = IF job'.has_mask
                                   THEN Rebased(labels_path, job'.image_path)
                                   ELSE "None"
              /\ (job'.has_mask =>
                   job'.mask_path[Len(job'.mask_path)]
                     = job'.image_path[Len(job'.image_path)])
         ELSE ~job'.has_mask /\ job'.mask_path = "None"
     /\ job'.op = "crop_image_by_mask" =>
         /\ job'.existed = (Rebased(cropped_path, job'.image_path) \in job.files)
         /\ job'.files = IF job'.success
                          THEN job.files \cup {Rebased(cropped_path, job'.image_path)}
                          ELSE job.files
         /\ job'.success => cropped_image_exists(job'.files, job'.image_path)]_vars

\* a mask was saved for f1/a.png while f2/a.png and f1/a.tif have none
C27_Witness ==
  /\ job.op = "save_mask" /\ job.success
  /\ job.image_path = <<"exp", "Data", "f1", "a.png">>
  /\ <<"exp", "Labels", "f1", "a.png">> \in job.files
  /\ ~path_has_mask(job.files, <<"exp", "Data", "f2", "a.png">>)
  /\ ~path_has_mask(job.files, <<"exp", "Data", "f1", "a.tif">>)
  /\ get_mask_path(job.files, <<"exp", "Labels", "f1", "a.png">>) = "None"

RECURSIVE Within(_, _, _)
\* the pixels of fg that at most n steps between neighbouring pixels of fg
\* (diagonal steps included) join to p
Within(fg, p, n) ==
  IF n = 0 THEN {p}
  ELSE LET near == Within(fg, p, n - 1)
       IN near \cup {q \in fg : \E o \in near :
                      o[1] - q[1] \in -1..1 /\ o[2] - q[2] \in -1..1}

\* the connected components of the non-zero pixels of a binary raster
ComponentsOf(binary) ==
  LET fg == {p \in RasterPixels(binary) : PixelValue(binary, p) = 255}
  IN {Within(fg, p, Cardinality(fg)) : p \in fg}

\* the row-by-row scan position of the first pixel of a component
FirstScan(binary, K) ==
  CHOOSE n \in 0..(Cardinality(RasterPixels(binary)) - 1) :
    /\ \E p \in K : p[1] * Len(binary[1]) + p[2] = n
    /\ \A p \in K : p[1] * Len(binary[1]) + p[2] >= n

\* C28: the detector returns the centroid (x = column, y = row, truncated
\* to integers) of a connected component of maximum area of the inverted
\* binarised image, the lowest-labelled one among components of equal
\* area; it returns no region when there is no component; and it changes
\* nothing of the program (no oracle call, mask and markers as they were).
C28_CentroidOfLargestComponent ==
  [][job'.op = "generate_auto_mask" =>
       /\ UNCHANGED program
       /\ LET comps == ComponentsOf(job'.binarised_image)
          IN IF comps = {} THEN job'.centroid_point = NoCentroid
             ELSE \E K \in comps :
                    /\ \A L \in comps \ {K} :
                         \/ Cardinality(L) < Cardinality(K)
                         \/ /\ Cardinality(L) = Cardinality(K)
                            /\ FirstScan(job'.binarised_image, K)
                                 < FirstScan(job'.binarised_image, L)
                    /\ \E x \in 0..2, y \in 0..2 :
                         /\ job'.centroid_point = <<x, y>>
                         /\ LET n == Cardinality(K)
                                cols == SumOf(job'.image, K, 2)
                                rows == SumOf(job'.image, K, 1)
                            IN /\ x * n <= cols /\ cols < (x + 1) * n
                               /\ y * n <= rows /\ rows < (y + 1) * n]_vars

\* two components of two pixels each; the centroid of the first one has
\* the column 1.5 and the row 0
C28_Witness ==
  /\ job.op = "generate_auto_mask"
  /\ job.binarised_image = <<<<0, 255, 255>>, <<0, 0, 0>>, <<255, 255, 0>>>>
  /\ Cardinality(ComponentsOf(job.binarised_image)) = 2
  /\ job.centroid_point = <<1, 0>>

\* the current image is a readable single-channel 16-bit file
CurrentIsGray16 ==
  /\ image_manager.current_image_path \in FileSet
  /\ FileInfo[image_manager.current_image_path].readable
  /\ FileInfo[image_manager.current_image_path].bits = 16
  /\ FileInfo[image_manager.current_image_path].channels = 1

\* C29: applying the threshold generator twice with the same threshold to
\* the same 16-bit image yields identical masks, and the stored mask after
\* a threshold step is the generator's result for the current image and
\* the threshold alone: nothing of the mask before (strokes, an oracle
\* result, a loaded file) remains.
C29_ThresholdReplacesMask ==
  [][(trace'.op = "threshold" /\ CurrentIsGray16)
     => /\ \E threshold_value \in ThresholdValues :
             canvas'.mask = [kind |-> "threshold",
                             w |-> FileInfo[image_manager.current_image_path].w,
                             h |-> FileInfo[image_manager.current_image_path].h,
                             img |-> image_manager.current_image_path,
                             pts |-> <<>>, threshold |-> threshold_value,
                             strokes |-> <<>>]
        /\ (/\ canvas.mask.kind = "threshold"
            /\ canvas.mask.strokes = <<>>
            /\ canvas.mask.img = image_manager.current_image_path
            /\ canvas'.mask.threshold = canvas.mask.threshold)
           => canvas'.mask = canvas.mask]_vars

\* a threshold mask stands while markers are placed: the mask before was
\* the oracle's result for them
C29_Witness ==
  /\ trace.op = "threshold" /\ ~trace.raised
  /\ canvas.mask.kind = "threshold" /\ canvas.mask.strokes = <<>>
  /\ canvas.sam_markers # <<>>

\* C30: after every image load and every resize that leaves an image on
\* the canvas, scale_factor is min(canvasW / imageW, canvasH / imageH) of
\* the padded canvas size whatever the zoom was before, min_scale_factor is
\* 0.8 times that value, and the scaled image lies entirely within the
\* canvas.
C30_AutoFitOnLoadAndResize ==
  [][((trace'.op = "resize" \/ trace'.loaded \in FileSet) /\ canvas'.image # "null")
     => LET img == ImageSize(canvas'.image)
            cw == canvas'.width - FitPadding
            ch == canvas'.height - FitPadding
            n == canvas'.scale_factor[1]
            d == canvas'.scale_factor[2]
            m == canvas'.min_scale_factor[1]
            e == canvas'.min_scale_factor[2]
        IN /\ n * img[1] <= d * cw /\ n * img[2] <= d * ch
           /\ n * img[1] = d * cw \/ n * img[2] = d * ch
           /\ 5 * m * d = 4 * n * e
           /\ canvas'.panOffset[1] >= 0 /\ canvas'.panOffset[2] >= 0
           /\ canvas'.panOffset[1] + canvas'.scaled_image[1] <= canvas'.width
           /\ canvas'.panOffset[2] + canvas'.scaled_image[2] <= canvas'.height]_vars

\* the canvas showing the 800x600 image was resized to 640x500: the scale
\* is 620/800, the scaled image 620x465
C30_Witness ==
  /\ trace.op = "resize" /\ canvas.image = "a"
  /\ canvas.width = 640 /\ canvas.height = 500
  /\ canvas.scale_factor[1] * 40 = canvas.scale_factor[2] * 31
  /\ canvas.scaled_image = <<620, 465>>

\* C31: publish invokes the callbacks subscribed to the event's type, one
\* call for each subscription and in subscription order, before it
\* returns; a callback that raises does not keep the later ones from being
\* invoked; callbacks subscribed to other types only are not invoked.
C31_PublishCallsSubscribersInOrder ==
  [][job'.op = "publish"
     => /\ job'.calls = job.subscribers[job'.event_type]
        /\ job'.subscribers = job.subscribers]_vars

\* an event was published to a raising callback followed by another one,
\* while the other type has a subscriber of its own
C31_Witness ==
  /\ job.op = "publish" /\ job.event_type = "MASK_CREATED"
  /\ job.calls = <<"raiser", "p">>
  /\ job.subscribers["MASK_CLEARED"] = <<"q">>

\* the number of times callback occurs in a list of callbacks
Occurrences(list, callback) ==
  Cardinality({i \in DOMAIN list : list[i] = callback})

\* C38: when callbacks unsubscribe themselves or others, or subscribe new
\* callbacks, while an event of that type is published, every callback
\* that was subscribed (once) when publish started and is still subscribed
\* when it returns has been invoked exactly once for the event.
C38_DeliveryUnderSubscriptionChanges ==
  [][job'.op = "publish"
     => \A callback \in ChangingCallbacks :
          (/\ Occurrences(job.subscribers[job'.event_type], callback) = 1
           /\ Occurrences(job'.subscribers[job'.event_type], callback) >= 1)
          => Occurrences(job'.calls, callback) = 1]_vars

\* C32: whenever the active tool is not Marker the marker list is empty,
\* and the list only grows by a left click while Marker is active, which
\* appends one point; every other step (auto region detection, threshold,
\* strokes, navigation, tool change) leaves the list or takes markers away.
C32_MarkersOnlyWithMarkerTool ==
  [][/\ canvas'.current_tool # "marker" => canvas'.sam_markers = <<>>
     /\ \/ canvas'.sam_markers = canvas.sam_markers
        \/ /\ Len(canvas'.sam_markers) < Len(canvas.sam_markers)
           /\ \A i \in DOMAIN canvas'.sam_markers :
                \E j \in DOMAIN canvas.sam_markers :
                  canvas'.sam_markers[i] = canvas.sam_markers[j]
        \/ /\ trace'.op = "press_left" /\ canvas.current_tool = "marker"
           /\ \E point \in {convert_to_image_coords(canvas, trace'.pos)} :
                canvas'.sam_markers = Append(canvas.sam_markers, point)]_vars

\* the Brush button was clicked while markers were placed, with Auto SAM
\* checked: the markers are gone
C32_Witness ==
  /\ trace.op = "tool_brush" /\ trace.cleared > 0
  /\ canvas.current_tool = "brush" /\ canvas.sam_markers = <<>>
  /\ drawing_tools.auto_sam

\* the step is a save_mask that succeeded: MASK_CREATED was published
SavedInStep == \E i \in DOMAIN trace'.events : trace'.events[i] = "MASK_CREATED"

\* the step loaded an image or the placeholder
LoadedInStep ==
  \/ trace'.loaded # "none"
  \/ canvas'.image = "placeholder" /\ ~drawing_tools'.enabled
       /\ trace'.op \notin {"save", "move", "press_left", "press_right",
                             "release_left", "release_right"}

\* C33: after every handler mask_is_saved = ~current_mask_modified; a step
\* that changes the mask without loading (stroke, erase, clear, threshold,
\* oracle replace) leaves the mask flagged unsaved; an unsaved mask becomes
\* saved only by a save_mask that succeeds or by a load of an image or of
\* the placeholder; a save_mask that fails leaves the flags as they were.
C33_MaskSaveState ==
  [][/\ window'.mask_is_saved = ~window'.current_mask_modified
     /\ (canvas'.mask # canvas.mask /\ ~LoadedInStep) => ~window'.mask_is_saved
     /\ (~window.mask_is_saved /\ window'.mask_is_saved)
          => (LoadedInStep \/ (trace'.op = "save" /\ SavedInStep))
     /\ (trace'.op = "save" /\ ~SavedInStep)
          => /\ window'.mask_is_saved = window.mask_is_saved
             /\ window'.current_mask_modified = window.current_mask_modified]_vars

\* a save failed on a mask with a stroke: it is still flagged unsaved
C33_Witness ==
  /\ trace.op = "save" /\ trace.events = <<>>
  /\ canvas.mask.strokes # <<>>
  /\ ~window.mask_is_saved /\ window.current_mask_modified

\* C34: whenever an oracle prediction is stored as the canvas mask (after a
\* marker was added or removed, or after auto region detection), the image
\* the predictor was set up with is the image displayed at that moment and
\* the current image of the image manager.
C34_PredictionOnCurrentImage ==
  [][\A i \in DOMAIN trace'.replaced :
       trace'.replaced[i].given.kind = "oracle"
       => /\ trace'.replaced[i].given.img = trace'.replaced[i].image
          /\ trace'.replaced[i].given.img = trace'.replaced[i].path]_vars

\* C35: every image that next, previous or random navigation makes current
\* has no saved mask in the viewing mode "unlabelled" and has one in the
\* mode "labelled", after any sequence of saves and navigation.
C35_NavigationRespectsMode ==
  [][(/\ trace'.op \in {"next", "previous", "random"}
      /\ image_manager'.current_image_path # "")
     => (image_manager'.current_image_path \in disk'.mask_files)
          = (image_manager'.viewing_mode = "labelled")]_vars

\* C36: with a non-empty pool 0 <= current_image_index < len(image_pool)
\* and current_image_path = image_pool[current_image_index]; with an empty
\* pool the current path is empty and next and previous change nothing;
\* next and previous step cyclically through the pool and undo each other;
\* get_image_by_index with an index out of range changes nothing.
C36_PoolNavigation ==
  LET pool == image_manager.image_pool
      index == image_manager.current_image_index
      next == image_manager_get_next_image(State)
      previous == image_manager_get_previous_image(State)
  IN /\ pool = <<>>
          => /\ image_manager.current_image_path = ""
             /\ next = State /\ previous = State
     /\ pool # <<>>
          => /\ index \in 0..(Len(pool) - 1)
             /\ image_manager.current_image_path = pool[index + 1]
             /\ next.image_manager.current_image_index
                  = (IF index = Len(pool) - 1 THEN 0 ELSE index + 1)
             /\ previous.image_manager.current_image_index
                  = (IF index = 0 THEN Len(pool) - 1 ELSE index - 1)
             /\ next.image_manager.current_image_path
                  = pool[next.image_manager.current_image_index + 1]
             /\ previous.image_manager.current_image_path
                  = pool[previous.image_manager.current_image_index + 1]
             /\ image_manager_get_previous_image(next) = State
             /\ image_manager_get_next_image(previous) = State
     /\ \A out \in {-2, -1, Len(pool), Len(pool) + 1} :
          get_image_by_index(State, out) = State

\* Previous on the first image of a pool of three made the last one current
C36_Witness ==
  /\ trace.op = "previous"
  /\ Len(image_manager.image_pool) = 3
  /\ image_manager.current_image_index = 2
  /\ image_manager.current_image_path = image_manager.image_pool[3]

\* C37: a press of the left or right button in Brush mode keeps the
\* image-space point of the press and leaves the mask alone, as does every
\* release; a move that draws appends one segment from the kept point to
\* the image-space point of the move and keeps that end point; no other
\* handler (wheel zoom, pan, tool change, load) changes the kept point, so
\* every segment of a drag starts where the previous one ended; the
\* drawing and erasing flags are set only by such a press; and a move
\* leaves the mask alone when the tool is not Brush, when neither flag is
\* set, or when the mask is null.
C37_StrokeContinuity ==
  [][LET op == trace'.op
         c == canvas
         current_point == convert_to_image_coords(c, trace'.pos)
         brushPress == op \in {"press_left", "press_right"} /\ c.current_tool = "brush"
         draws == op = "move" /\ DrawsSegment
         mode == IF "left" \in buttons /\ c.drawing THEN "paint" ELSE "erase"
     IN /\ brushPress => (/\ canvas'.lastPoint = current_point
                          /\ canvas'.mask = c.mask)
        /\ (op \in {"release_left", "release_right", "release_middle"})
             => (canvas'.mask = c.mask)
        /\ draws => (/\ canvas'.mask.strokes
                          = Append(c.mask.strokes,
                                   Stroke(mode, c.lastPoint, current_point, c.penWidth))
                     /\ canvas'.lastPoint = current_point)
        /\ (~brushPress /\ ~draws) => (canvas'.lastPoint = c.lastPoint)
        /\ (canvas'.drawing /\ ~c.drawing)
             => (op = "press_left" /\ c.current_tool = "brush")
        /\ (canvas'.erasing /\ ~c.erasing)
             => (op = "press_right" /\ c.current_tool = "brush")
        /\ (/\ op = "move"
            /\ \/ c.current_tool # "brush"
               \/ ~(c.drawing \/ c.erasing)
               \/ c.mask.kind = "null")
             => (canvas'.mask = c.mask)]_vars

\* The second segment of one drag was drawn after the view had changed: it
\* starts where the first ended and ends at another image point, although
\* both moves went to the same widget position
C37_Witness ==
  /\ trace.op = "move"
  /\ image_manager.current_image_path = "a"
  /\ canvas.drawing /\ "left" \in buttons
  /\ Len(canvas.mask.strokes) = 2
  /\ canvas.mask.strokes[2].from = canvas.mask.strokes[1].to
  /\ canvas.mask.strokes[2].to # canvas.mask.strokes[1].to
  /\ canvas.mask.strokes[1].from # canvas.mask.strokes[1].to
  /\ canvas.mask.strokes[1].from[1] >= 0 /\ canvas.mask.strokes[1].from[2] >= 0
  /\ canvas.lastPoint = canvas.mask.strokes[2].to

====
